---- MODULE Spec2Model ----
(***************************************************************************)
(* A model of e2slib's analysis layer: Site (analysis/site.py), Scenario   *)
(* (analysis/scenario.py) and ScenarioComparison (analysis/comparison.py). *)
(*                                                                         *)
(* Tables.  A pandas DataFrame is a record                                 *)
(*     [tz |-> timezone of the index, rows |-> number of rows,             *)
(*      cols |-> sequence of columns [label |-> .., vals |-> ..]]          *)
(* with the columns in their order.  Row positions 1..rows stand for the   *)
(* time index; all arithmetic of the code goes through `.values`, that is  *)
(* by row position.                                                        *)
(*                                                                         *)
(* Numbers.  Energy readings are integers (kWh).  Prices, emission         *)
(* factors and money amounts are integers in thousandths of their unit, so *)
(* the default emission factor 0.150 is 150.                               *)
(*                                                                         *)
(* Dictionaries.  A Python dict is a sequence of <<key, value>> pairs with *)
(* distinct keys, in insertion order.                                      *)
(***************************************************************************)
EXTENDS Integers, Sequences, FiniteSets, TLC

VARIABLES
  site_electricity_demand,  \* Site.site_electricity_demand, per site
  list_asset_aggregator,    \* Site.list_asset_aggregator, per site
  scenario,                 \* the Scenario objects, by name
  comparison,               \* the ScenarioComparison object
  schedule,                 \* the OccupancySchedule object
  time_table,               \* the caller's time table
  random_state,             \* the state of Python's global random generator
  np_random_state,          \* the state of numpy's global random generator
  lastCall                  \* the last call made and what it returned

\* the state of the analysis layer (Site, Scenario, ScenarioComparison)
analysisVars == <<site_electricity_demand, list_asset_aggregator, scenario, comparison>>

\* the state of the utilities (OccupancySchedule and the table it is given,
\* the random generators of the dummy data)
utilVars == <<schedule, time_table, random_state, np_random_state>>

vars == <<analysisVars, utilVars, lastCall>>

----------------------------------------------------------------------------
(* Bounds of the model *)

NumSteps == 2     \* rows (half-hourly timesteps) of every time table
MaxAgg == 2       \* aggregators attached to one site
MaxDemand == 1    \* largest site demand reading; readings are -1..MaxDemand

(* Program constants *)

DefaultEmissionFactor == 150   \* 0.150 kgCO2e/kWh, in thousandths
DefaultExportPrice == 0
PeakFactor == 2

Steps == 1..NumSteps

----------------------------------------------------------------------------
(* Labels: structures/site_schema.py, structures/enums.py.  A label is     *)
(* <<technology prefix, parameter name>>; the prefix is "" for the schema  *)
(* labels and the technology's name for the per-technology rows that       *)
(* get_capex_by_technology and get_capacity_by_technology build.           *)

SchemaLabel(name) == <<"", name>>

IMPORT_ELECTRICITY_DEMAND == SchemaLabel("IMPORT_ELECTRICITY_DEMAND")
EXPORT_ELECTRICITY_DEMAND == SchemaLabel("EXPORT_ELECTRICITY_DEMAND")
ELECTRICITY_GENERATION == SchemaLabel("ELECTRICITY_GENERATION")
ADDITIONAL_ELECTRICITY_DEMAND == SchemaLabel("ADDITIONAL_ELECTRICITY_DEMAND")
INIT_SITE_ELECTRICITY_DEMAND == SchemaLabel("INIT_SITE_ELECTRICITY_DEMAND")
SELF_CONSUMED_ELECTRICITY == SchemaLabel("SELF_CONSUMED_ELECTRICITY")
IMPORT_ELECTRICITY_PRICES == SchemaLabel("IMPORT_ELECTRICITY_PRICES")
EXPORT_ELECTRICITY_REVENUES == SchemaLabel("EXPORT_ELECTRICITY_REVENUES")
GHG_INTENSITY_IMPORT_ELECTRICITY == SchemaLabel("GHG_INTENSITY_IMPORT_ELECTRICITY")
IMPORT_ELECTRICITY_COSTS == SchemaLabel("IMPORT_ELECTRICITY_COSTS")
GHG_EMISSIONS_IMPORT_ELECTRICITY == SchemaLabel("GHG_EMISSIONS_IMPORT_ELECTRICITY")
SITE_GHG_EMISSIONS_DISPLACED == SchemaLabel("SITE_GHG_EMISSIONS_DISPLACED")
TOTAL_GHG_EMISSIONS_DISPLACED == SchemaLabel("TOTAL_GHG_EMISSIONS_DISPLACED")
ELECTRICITY_SAVINGS == SchemaLabel("ELECTRICITY_SAVINGS")
OPEX == SchemaLabel("OPEX")
CAPEX == SchemaLabel("CAPEX")
CAPACITY_INSTALLED == SchemaLabel("CAPACITY_INSTALLED")
PEAK_ELECTRICITY_IMPORT == SchemaLabel("PEAK_ELECTRICITY_IMPORT")
PEAK_ELECTRICITY_EXPORT == SchemaLabel("PEAK_ELECTRICITY_EXPORT")

TechnologyType == {"PV", "EV"}

----------------------------------------------------------------------------
(* Tables *)

EmptyFrame == [tz |-> "naive", rows |-> 0, cols |-> <<>>]   \* pd.DataFrame()

\* the sequence f, held as a tuple of its elements
Tuple(f) == f \o <<>>

Column(label, vals) == [label |-> label, vals |-> Tuple(vals)]

Frame(tz, rows, cols) == [tz |-> tz, rows |-> rows, cols |-> Tuple(cols)]

SingleColumn(tz, label, vals) == Frame(tz, Len(vals), <<Column(label, vals)>>)

Zeros == [i \in Steps |-> 0]

\* dataf[label]: the values of the first column carrying the label
ColumnOf(dataf, label) ==
  dataf.cols[CHOOSE i \in 1..Len(dataf.cols) :
               /\ dataf.cols[i].label = label
               /\ \A j \in 1..(i - 1) : dataf.cols[j].label # label].vals

HasColumn(dataf, label) == \E i \in 1..Len(dataf.cols) : dataf.cols[i].label = label

RECURSIVE SeqSum(_)
SeqSum(s) == IF s = <<>> THEN 0 ELSE Head(s) + SeqSum(Tail(s))

RECURSIVE SeqMax(_)
SeqMax(s) == IF Len(s) = 1 THEN s[1]
             ELSE LET m == SeqMax(Tail(s)) IN IF s[1] >= m THEN s[1] ELSE m

----------------------------------------------------------------------------
(* The site's geolocation and the asset aggregators (protocols.py)         *)

SiteIds == {"site1", "site2"}

SiteTimezone == "Europe/London"   \* geolocation.timezone of every site

\* The aggregators a caller may attach.  An aggregator that reports no
\* series hands over an empty table (<<>>).
PVArray ==
  [name |-> "pv",
   size_system |-> << <<"PV", 4>> >>,
   capital_cost |-> << <<"PV", 5000>> >>,
   annual_maintenance_cost |-> << <<"PV", 100>> >>,
   additional_demand |-> <<>>,
   onsite_generation |-> [i \in Steps |-> IF i = 1 THEN 2 ELSE 0]]

EVChargers ==
  [name |-> "ev",
   size_system |-> << <<"EV", 7>> >>,
   capital_cost |-> << <<"EV", 3000>> >>,
   annual_maintenance_cost |-> <<>>,
   additional_demand |-> [i \in Steps |-> 1],
   onsite_generation |-> <<>>]

EnergyHub ==
  [name |-> "hub",
   size_system |-> << <<"EV", 2>>, <<"PV", 1>> >>,
   capital_cost |-> << <<"EV", 1000>>, <<"PV", 2000>> >>,
   annual_maintenance_cost |-> << <<"EV", 50>>, <<"PV", 20>> >>,
   additional_demand |-> [i \in Steps |-> IF i = 1 THEN 1 ELSE 0],
   onsite_generation |-> [i \in Steps |-> 1]]

Aggregators == {PVArray, EVChargers, EnergyHub}

----------------------------------------------------------------------------
(* Site: analysis/site.py *)

HasKey(d, k) == \E i \in 1..Len(d) : d[i][1] = k

Keys(d) == {d[i][1] : i \in 1..Len(d)}

\* d[k] for a key the dictionary holds
Lookup(d, k) == d[CHOOSE i \in 1..Len(d) : d[i][1] = k][2]

\* collections.Counter.update(d): add d's count to the key's count; a key
\* seen for the first time is inserted after the keys already present.
RECURSIVE CounterUpdate(_, _)
CounterUpdate(counter, d) ==
  IF d = <<>> THEN counter
  ELSE LET k == Head(d)[1]
           v == Head(d)[2]
           added == IF HasKey(counter, k)
                    THEN Tuple([i \in 1..Len(counter) |->
                                  IF counter[i][1] = k THEN <<k, counter[i][2] + v>>
                                  ELSE counter[i]])
                    ELSE Append(counter, <<k, v>>)
       IN CounterUpdate(added, Tail(d))

\* A plausible slip: keep only the keys every dictionary has.
RECURSIVE sum_dict_intersection(_)
sum_dict_intersection(list_dict) ==
  IF list_dict = <<>> THEN <<>>
  ELSE IF Len(list_dict) = 1 THEN list_dict[1]
  ELSE LET rest == sum_dict_intersection(Tail(list_dict))
           first == Head(list_dict)
       IN SelectSeq([i \in 1..Len(first) |->
                       IF HasKey(rest, first[i][1])
                       THEN <<first[i][1], first[i][2] + Lookup(rest, first[i][1])>>
                       ELSE <<"", 0>>],
                    LAMBDA kv : kv[1] # "")

RECURSIVE SumDictFrom(_, _)
SumDictFrom(counter, list_dict) ==
  IF list_dict = <<>> THEN counter
  ELSE SumDictFrom(CounterUpdate(counter, Head(list_dict)), Tail(list_dict))

sum_dict(list_dict) == SumDictFrom(<<>>, list_dict)

size_system(s) ==
  sum_dict(Tuple([i \in 1..Len(list_asset_aggregator[s]) |->
                    list_asset_aggregator[s][i].size_system]))

capital_cost(s) ==
  sum_dict(Tuple([i \in 1..Len(list_asset_aggregator[s]) |->
                    list_asset_aggregator[s][i].capital_cost]))

annual_maintenance_cost(s) ==
  sum_dict(Tuple([i \in 1..Len(list_asset_aggregator[s]) |->
                    list_asset_aggregator[s][i].annual_maintenance_cost]))

\* get_import_and_export_demand(dataf) with the import side not clipped
get_import_and_export_demand_unclipped(dataf) ==
  << SingleColumn(dataf.tz, IMPORT_ELECTRICITY_DEMAND, dataf.cols[1].vals),
     SingleColumn(dataf.tz, EXPORT_ELECTRICITY_DEMAND,
                  [i \in 1..dataf.rows |->
                     IF dataf.cols[1].vals[i] > 0 THEN 0 ELSE -dataf.cols[1].vals[i]]) >>

\* A plausible slip: the export column is clipped but not negated.
get_import_and_export_demand_export_signed(dataf) ==
  LET v == dataf.cols[1].vals
  IN << SingleColumn(dataf.tz, IMPORT_ELECTRICITY_DEMAND,
                     [i \in 1..dataf.rows |-> IF v[i] < 0 THEN 0 ELSE v[i]]),
        SingleColumn(dataf.tz, EXPORT_ELECTRICITY_DEMAND,
                     [i \in 1..dataf.rows |-> IF v[i] > 0 THEN 0 ELSE v[i]]) >>

\* import: the rows below zero are set to 0; export: the rows above zero are
\* set to 0 and the column is negated.  Both are relabelled.
get_import_and_export_demand(dataf) ==
  LET v == dataf.cols[1].vals
      import_vals == [i \in 1..dataf.rows |-> IF v[i] < 0 THEN 0 ELSE v[i]]
      export_kept == [i \in 1..dataf.rows |-> IF v[i] > 0 THEN 0 ELSE v[i]]
      export_vals == [i \in 1..dataf.rows |-> -export_kept[i]]
  IN << SingleColumn(dataf.tz, IMPORT_ELECTRICITY_DEMAND, import_vals),
        SingleColumn(dataf.tz, EXPORT_ELECTRICITY_DEMAND, export_vals) >>

\* pd.concat of every aggregator's series, one column per aggregator; an
\* aggregator's empty table adds no column and no row.
aggregators_additional_demand(s) ==
  LET aggs == list_asset_aggregator[s]
      cols == SelectSeq([i \in 1..Len(aggs) |->
                           Column(<<aggs[i].name, "ADDITIONAL">>, aggs[i].additional_demand)],
                        LAMBDA c : c.vals # <<>>)
  IN IF cols = <<>> THEN EmptyFrame ELSE Frame(SiteTimezone, NumSteps, cols)

aggregators_onsite_generation(s) ==
  LET aggs == list_asset_aggregator[s]
      cols == SelectSeq([i \in 1..Len(aggs) |->
                           Column(<<aggs[i].name, "GENERATION">>, aggs[i].onsite_generation)],
                        LAMBDA c : c.vals # <<>>)
  IN IF cols = <<>> THEN EmptyFrame ELSE Frame(SiteTimezone, NumSteps, cols)

\* dataf.sum(axis=1): the row-wise sum over the columns
RowSum(dataf) ==
  [i \in 1..dataf.rows |->
     SeqSum([c \in 1..Len(dataf.cols) |-> dataf.cols[c].vals[i]])]

\* A plausible slip: no fallback, the empty table is handed on.
total_additional_demand_no_fallback(s) ==
  LET systems_demand == aggregators_additional_demand(s)
  IN IF systems_demand.rows = 0
     THEN SingleColumn(systems_demand.tz, ADDITIONAL_ELECTRICITY_DEMAND, <<>>)
     ELSE SingleColumn(systems_demand.tz, ADDITIONAL_ELECTRICITY_DEMAND,
                       RowSum(systems_demand))

total_additional_demand(s) ==
  LET systems_demand == aggregators_additional_demand(s)
      demand == site_electricity_demand[s]
  IN IF systems_demand.rows = 0
     THEN SingleColumn(demand.tz, ADDITIONAL_ELECTRICITY_DEMAND,
                       [i \in 1..demand.rows |-> 0])
     ELSE SingleColumn(systems_demand.tz, ADDITIONAL_ELECTRICITY_DEMAND,
                       RowSum(systems_demand))

total_onsite_generation(s) ==
  LET onsite_gen == aggregators_onsite_generation(s)
      demand == site_electricity_demand[s]
  IN IF onsite_gen.rows = 0
     THEN SingleColumn(demand.tz, ELECTRICITY_GENERATION,
                       [i \in 1..demand.rows |-> 0])
     ELSE SingleColumn(onsite_gen.tz, ELECTRICITY_GENERATION, RowSum(onsite_gen))

\* A plausible slip: always hand back the onsite generation.
get_avoided_electricity_import_uncapped(s, onsite_gen, export_demand) ==
  SingleColumn(onsite_gen.tz, SELF_CONSUMED_ELECTRICITY, onsite_gen.cols[1].vals)

\* a copy of the onsite generation whose rows with export demand > 0 are
\* overwritten with the site's own electricity demand at those rows
get_avoided_electricity_import(s, onsite_gen, export_demand) ==
  LET gen == onsite_gen.cols[1].vals
      filt == [i \in 1..export_demand.rows |-> export_demand.cols[1].vals[i] > 0]
      site == site_electricity_demand[s].cols[1].vals
  IN SingleColumn(onsite_gen.tz, SELF_CONSUMED_ELECTRICITY,
                  [i \in 1..onsite_gen.rows |-> IF filt[i] THEN site[i] ELSE gen[i]])

\* A plausible slip: the additional demand is left out of the net demand.
site_net_demand_without_additional(s) ==
  LET on_site_gen == total_onsite_generation(s)
      demand == site_electricity_demand[s]
  IN SingleColumn(demand.tz, INIT_SITE_ELECTRICITY_DEMAND,
                  [i \in 1..demand.rows |->
                     demand.cols[1].vals[i] - on_site_gen.cols[1].vals[i]])

\* lines 232-237 of export_results: total demand, then net demand
site_net_demand(s) ==
  LET additional_demand == total_additional_demand(s)
      on_site_gen == total_onsite_generation(s)
      demand == site_electricity_demand[s]
      total_elec_demand == [i \in 1..demand.rows |->
                              demand.cols[1].vals[i] + additional_demand.cols[1].vals[i]]
  IN SingleColumn(demand.tz, INIT_SITE_ELECTRICITY_DEMAND,
                  [i \in 1..demand.rows |->
                     total_elec_demand[i] - on_site_gen.cols[1].vals[i]])

site_export_results(s) ==
  LET additional_demand == total_additional_demand(s)
      on_site_gen == total_onsite_generation(s)
      split == get_import_and_export_demand(site_net_demand(s))
      import_demand == split[1]
      export_demand == split[2]
      avoided_import_electricity ==
        get_avoided_electricity_import(s, on_site_gen, export_demand)
  IN Frame(site_electricity_demand[s].tz, site_electricity_demand[s].rows,
           import_demand.cols \o export_demand.cols \o on_site_gen.cols
             \o additional_demand.cols \o site_electricity_demand[s].cols
             \o avoided_import_electricity.cols)

----------------------------------------------------------------------------
(* Calls.  Every action is one call of the library; lastCall records it.   *)

Call(op, self, args, ret) == [op |-> op, self |-> self, args |-> args, ret |-> ret]

NoCall == Call("none", "", <<>>, "None")

DemandValues == (-1)..MaxDemand

DemandSeries == [Steps -> DemandValues]

\* Site.__post_init__ -> format_site_electricity_demand_data on a table of
\* one column: resampled to 30 min, index in the site's timezone, relabelled.
FormattedSiteDemand(vals) ==
  SingleColumn(SiteTimezone, INIT_SITE_ELECTRICITY_DEMAND, vals)

\* Site.add_asset_aggregator(asset_aggregator)
SiteAddAssetAggregator(s, a) ==
  /\ Len(list_asset_aggregator[s]) < MaxAgg
  /\ list_asset_aggregator' =
       [list_asset_aggregator EXCEPT ![s] = Append(list_asset_aggregator[s], a)]
  /\ lastCall' = Call("Site.add_asset_aggregator", s, <<a>>, "None")
  /\ UNCHANGED <<site_electricity_demand, scenario, comparison, utilVars>>

\* reading the property Site.size_system
SizeSystem(s) ==
  /\ lastCall' = Call("Site.size_system", s, <<>>, size_system(s))
  /\ UNCHANGED <<site_electricity_demand, list_asset_aggregator, scenario, comparison, utilVars>>

\* reading the property Site.capital_cost
CapitalCost(s) ==
  /\ lastCall' = Call("Site.capital_cost", s, <<>>, capital_cost(s))
  /\ UNCHANGED <<site_electricity_demand, list_asset_aggregator, scenario, comparison, utilVars>>

\* reading the property Site.annual_maintenance_cost
AnnualMaintenanceCost(s) ==
  /\ lastCall' = Call("Site.annual_maintenance_cost", s, <<>>,
                      annual_maintenance_cost(s))
  /\ UNCHANGED <<site_electricity_demand, list_asset_aggregator, scenario, comparison, utilVars>>

\* Site.get_import_and_export_demand(dataf)
GetImportAndExportDemand(s, dataf) ==
  /\ lastCall' = Call("Site.get_import_and_export_demand", s, <<dataf>>,
                      get_import_and_export_demand(dataf))
  /\ UNCHANGED <<site_electricity_demand, list_asset_aggregator, scenario, comparison, utilVars>>

\* Site.get_avoided_electricity_import(onsite_gen, export_demand)
GetAvoidedElectricityImport(s, onsite_gen, export_demand) ==
  /\ lastCall' = Call("Site.get_avoided_electricity_import", s,
                      <<onsite_gen, export_demand>>,
                      get_avoided_electricity_import(s, onsite_gen, export_demand))
  /\ UNCHANGED <<site_electricity_demand, list_asset_aggregator, scenario, comparison, utilVars>>

\* Site.export_results()
SiteExportResults(s) ==
  /\ lastCall' = Call("Site.export_results", s, <<>>, site_export_results(s))
  /\ UNCHANGED <<site_electricity_demand, list_asset_aggregator, scenario, comparison, utilVars>>

----------------------------------------------------------------------------
(* SpecSite: one Site of any signed demand, aggregators attached to it in  *)
(* any order, and its aggregate accessors and export_results read at any   *)
(* point.                                                                  *)

SiteUnderTest == "site1"

ExampleNetDemand == <<-5, 0, 5>>

NetDemandFrames ==
  {SingleColumn(SiteTimezone, INIT_SITE_ELECTRICITY_DEMAND, v) :
     v \in DemandSeries \cup {ExampleNetDemand}}

OnsiteGenFrames ==
  {SingleColumn(SiteTimezone, ELECTRICITY_GENERATION, [i \in Steps |-> g]) :
     g \in {0, MaxDemand + 1}}

ExportDemandFrames ==
  {SingleColumn(SiteTimezone, EXPORT_ELECTRICITY_DEMAND, v) :
     v \in [Steps -> (-1)..1]}

NoScenario == [pc |-> "none"]

NoComparison == [pc |-> "none"]

NoSchedule == [pc |-> "none"]

NoTable == [index |-> <<>>, cols |-> <<>>]

\* random.seed(42), run when utillib.dummy_data is imported
Seed == 42

\* the state of a random generator: the seed it started from and the
\* number of values drawn since
RandomState(seed, drawn) == [seed |-> seed, drawn |-> drawn]

\* the generators before any dummy data was made
IdleRandom ==
  /\ random_state = RandomState(Seed, 0)
  /\ np_random_state = RandomState(0, 0)

InitSite ==
  /\ \E d \in DemandSeries :
       site_electricity_demand =
         [s \in SiteIds |-> FormattedSiteDemand(IF s = SiteUnderTest THEN d ELSE Zeros)]
  /\ list_asset_aggregator = [s \in SiteIds |-> <<>>]
  /\ scenario = [n \in {"A", "B"} |-> NoScenario]
  /\ comparison = NoComparison
  /\ schedule = NoSchedule
  /\ IdleRandom
  /\ time_table = NoTable
  /\ lastCall = NoCall

NextSite ==
  \/ \E a \in Aggregators : SiteAddAssetAggregator(SiteUnderTest, a)
  \/ SizeSystem(SiteUnderTest)
  \/ CapitalCost(SiteUnderTest)
  \/ AnnualMaintenanceCost(SiteUnderTest)
  \/ SiteExportResults(SiteUnderTest)

SpecSite == InitSite /\ [][NextSite]_vars

(* SpecHelpers: the two helper methods of Site, which read no aggregator,  *)
(* called with any of the arguments above on a site of any signed demand.  *)

NextHelpers ==
  \/ \E dataf \in NetDemandFrames : GetImportAndExportDemand(SiteUnderTest, dataf)
  \/ \E g \in OnsiteGenFrames, e \in ExportDemandFrames :
       GetAvoidedElectricityImport(SiteUnderTest, g, e)

SpecHelpers == InitSite /\ [][NextHelpers]_vars

----------------------------------------------------------------------------
(* Properties of Site, checked under SpecSite (C2, C6) and SpecHelpers     *)
(* (C4, C5)                                                                *)

AggregateOps ==
  {"Site.size_system", "Site.capital_cost", "Site.annual_maintenance_cost"}

\* the aggregator mapping an aggregate accessor sums over
MappingRead(op, a) ==
  IF op = "Site.size_system" THEN a.size_system
  ELSE IF op = "Site.capital_cost" THEN a.capital_cost
  ELSE a.annual_maintenance_cost

\* what aggregator a contributes to technology k
Contribution(mapping, k) == IF HasKey(mapping, k) THEN Lookup(mapping, k) ELSE 0

\* C2: after any sequence of Site.add_asset_aggregator calls, size_system,
\* capital_cost and annual_maintenance_cost each map exactly the technologies
\* that appear in at least one attached aggregator's corresponding mapping,
\* each to the sum of its values over all attached aggregators (an aggregator
\* lacking the key contributes nothing).
C2_AdditiveUnion ==
  lastCall.op \in AggregateOps =>
    LET aggs == list_asset_aggregator[lastCall.self]
        d == lastCall.ret
    IN /\ Cardinality(Keys(d)) = Len(d)
       /\ Keys(d) = UNION {Keys(MappingRead(lastCall.op, aggs[i])) : i \in 1..Len(aggs)}
       /\ \A k \in Keys(d) :
            Lookup(d, k) =
              SeqSum([i \in 1..Len(aggs) |->
                        Contribution(MappingRead(lastCall.op, aggs[i]), k)])

\* C2's case: an accessor read on a site with two aggregators, one of them
\* lacking a technology the other has.
C2_Witness ==
  /\ lastCall.op = "Site.annual_maintenance_cost"
  /\ Len(list_asset_aggregator[lastCall.self]) = 2
  /\ \E i, j \in 1..2 :
       Keys(list_asset_aggregator[lastCall.self][i].annual_maintenance_cost)
         # Keys(list_asset_aggregator[lastCall.self][j].annual_maintenance_cost)
  /\ lastCall.ret # <<>>

\* C4: get_import_and_export_demand gives, at every row, import = the net
\* demand if it is non-negative and 0 otherwise, export = the negated net
\* demand if it is non-positive and 0 otherwise; a net demand of zero gives
\* zero on both sides, and [-5, 0, 5] gives import [0, 0, 5], export [5, 0, 0].
C4_ImportExportSplit ==
  lastCall.op = "Site.get_import_and_export_demand" =>
    LET net == lastCall.args[1].cols[1].vals
        imp == lastCall.ret[1]
        exp == lastCall.ret[2]
    IN /\ Len(imp.cols) = 1 /\ Len(exp.cols) = 1
       /\ imp.cols[1].label = IMPORT_ELECTRICITY_DEMAND
       /\ exp.cols[1].label = EXPORT_ELECTRICITY_DEMAND
       /\ Len(imp.cols[1].vals) = Len(net) /\ Len(exp.cols[1].vals) = Len(net)
       /\ \A i \in 1..Len(net) :
            /\ imp.cols[1].vals[i] = (IF net[i] >= 0 THEN net[i] ELSE 0)
            /\ exp.cols[1].vals[i] = (IF net[i] <= 0 THEN 0 - net[i] ELSE 0)
            /\ net[i] = 0 => imp.cols[1].vals[i] = 0 /\ exp.cols[1].vals[i] = 0
       /\ net = ExampleNetDemand =>
            imp.cols[1].vals = <<0, 0, 5>> /\ exp.cols[1].vals = <<5, 0, 0>>

\* C4's case: the split of a series with a negative, a zero and a positive row
C4_Witness ==
  /\ lastCall.op = "Site.get_import_and_export_demand"
  /\ LET net == lastCall.args[1].cols[1].vals
     IN /\ \E i \in 1..Len(net) : net[i] < 0
        /\ \E i \in 1..Len(net) : net[i] = 0
        /\ \E i \in 1..Len(net) : net[i] > 0

\* C5: get_avoided_electricity_import returns, at every row with export
\* demand > 0, the site's electricity demand of that row, and at every
\* other row the onsite generation of that row.
C5_AvoidedImport ==
  lastCall.op = "Site.get_avoided_electricity_import" =>
    LET gen == lastCall.args[1].cols[1].vals
        export == lastCall.args[2].cols[1].vals
        site == site_electricity_demand[lastCall.self].cols[1].vals
        avoided == lastCall.ret.cols[1].vals
    IN /\ Len(avoided) = Len(gen)
       /\ lastCall.ret.cols[1].label = SELF_CONSUMED_ELECTRICITY
       /\ \A i \in 1..Len(gen) :
            /\ export[i] > 0 => avoided[i] = site[i]
            /\ ~(export[i] > 0) => avoided[i] = gen[i]

\* C5's case: a row that exports, where generation and site demand differ,
\* next to a row that does not export
C5_Witness ==
  /\ lastCall.op = "Site.get_avoided_electricity_import"
  /\ LET gen == lastCall.args[1].cols[1].vals
         export == lastCall.args[2].cols[1].vals
         site == site_electricity_demand[lastCall.self].cols[1].vals
     IN /\ \E i \in 1..Len(gen) : export[i] > 0 /\ gen[i] # site[i]
        /\ \E i \in 1..Len(gen) : export[i] <= 0 /\ gen[i] # site[i]

\* the sum over the attached aggregators of row i of one of their series
AggregatorsRow(s, field, i) ==
  LET aggs == list_asset_aggregator[s]
  IN SeqSum([a \in 1..Len(aggs) |->
               IF aggs[a][field] = <<>> THEN 0 ELSE aggs[a][field][i]])

\* C6: in every row of Site.export_results the import and export columns are
\* the split of net demand = (site demand + additional demand of all
\* aggregators) - onsite generation of all aggregators, and the generation,
\* additional-demand and site-demand columns carry those inputs unchanged.
C6_ExportResults ==
  lastCall.op = "Site.export_results" =>
    LET s == lastCall.self
        site == site_electricity_demand[s].cols[1].vals
        out == lastCall.ret
    IN /\ [c \in 1..Len(out.cols) |-> out.cols[c].label] =
            <<IMPORT_ELECTRICITY_DEMAND, EXPORT_ELECTRICITY_DEMAND,
              ELECTRICITY_GENERATION, ADDITIONAL_ELECTRICITY_DEMAND,
              INIT_SITE_ELECTRICITY_DEMAND, SELF_CONSUMED_ELECTRICITY>>
       /\ \A i \in Steps :
            LET additional == AggregatorsRow(s, "additional_demand", i)
                generation == AggregatorsRow(s, "onsite_generation", i)
                net == (site[i] + additional) - generation
            IN /\ ColumnOf(out, IMPORT_ELECTRICITY_DEMAND)[i] = (IF net > 0 THEN net ELSE 0)
               /\ ColumnOf(out, EXPORT_ELECTRICITY_DEMAND)[i] = (IF net < 0 THEN 0 - net ELSE 0)
               /\ ColumnOf(out, ELECTRICITY_GENERATION)[i] = generation
               /\ ColumnOf(out, ADDITIONAL_ELECTRICITY_DEMAND)[i] = additional
               /\ ColumnOf(out, INIT_SITE_ELECTRICITY_DEMAND)[i] = site[i]

\* C6's case: results of a site whose aggregators both add demand and
\* generate, with a row that imports and a row that exports
C6_Witness ==
  /\ lastCall.op = "Site.export_results"
  /\ \E i \in Steps : AggregatorsRow(lastCall.self, "additional_demand", i) > 0
  /\ \E i \in Steps : ColumnOf(lastCall.ret, IMPORT_ELECTRICITY_DEMAND)[i] > 0
  /\ \E i \in Steps :
       /\ ColumnOf(lastCall.ret, EXPORT_ELECTRICITY_DEMAND)[i] > 0
       /\ AggregatorsRow(lastCall.self, "additional_demand", i) > 0

----------------------------------------------------------------------------
(* Scenario: analysis/scenario.py.  A Scenario object is a record          *)
(*   [pc, name, site_model, import_electricity_prices,                     *)
(*    import_electricity_emission_factor, export_electricity_prices,       *)
(*    site_energy_demand, summary_results];                                *)
(* a name whose construction has not finished holds NoScenario.            *)

ScenarioNames == {"A", "B"}

Constructed(n) == scenario[n].pc = "done"

\* A plausible slip: a tz-aware index is relabelled but not converted.
format_site_import_electricity_prices_localize_only(prices) ==
  IF Len(prices.cols) = 1
  THEN Frame(IF prices.tz = "naive" THEN SiteTimezone ELSE prices.tz, prices.rows,
             <<Column(IMPORT_ELECTRICITY_PRICES, prices.cols[1].vals)>>)
  ELSE prices

\* One column: the index is localized (naive) or converted (tz-aware) to the
\* site model's timezone and the column relabelled.  Otherwise a warning is
\* printed and the table is left as it is.
format_site_import_electricity_prices(prices) ==
  IF Len(prices.cols) = 1
  THEN Frame(SiteTimezone, prices.rows,
             <<Column(IMPORT_ELECTRICITY_PRICES, prices.cols[1].vals)>>)
  ELSE prices

\* `copy.columns = <one label>` on a copy of the import prices: pandas raises
\* ValueError (length mismatch) unless the table has exactly one column.
SetDefaultRaises(prices, supplied) == supplied.rows = 0 /\ Len(prices.cols) # 1

\* A plausible slip: the copy keeps the prices instead of the default value.
set_default_import_electricity_emission_factor_keeps_prices(prices, supplied) ==
  IF supplied.rows = 0
  THEN Frame(prices.tz, prices.rows,
             <<Column(GHG_INTENSITY_IMPORT_ELECTRICITY, prices.cols[1].vals)>>)
  ELSE supplied

set_default_import_electricity_emission_factor(prices, supplied) ==
  IF supplied.rows = 0
  THEN Frame(prices.tz, prices.rows,
             <<Column(GHG_INTENSITY_IMPORT_ELECTRICITY,
                      [i \in 1..prices.rows |-> DefaultEmissionFactor])>>)
  ELSE supplied

set_default_export_electricity_prices(prices, supplied) ==
  IF supplied.rows = 0
  THEN Frame(prices.tz, prices.rows,
             <<Column(EXPORT_ELECTRICITY_REVENUES,
                      [i \in 1..prices.rows |-> DefaultExportPrice])>>)
  ELSE supplied

\* dataf.mul(other.values, axis=0) for a one-column dataf: pandas raises
\* ValueError unless other.values can be coerced to dataf's shape.
MulRaises(rows, other) == ~(other.rows = rows /\ Len(other.cols) = 1)

\* self.<demand column>.mul(other.values, axis=0), relabelled
Mul(self, demand_label, other, label) ==
  LET demand == ColumnOf(self.site_energy_demand, demand_label)
  IN Column(label, [i \in 1..Len(demand) |-> demand[i] * other.cols[1].vals[i]])

calculate_electricity_import_operation_cost(self) ==
  Mul(self, IMPORT_ELECTRICITY_DEMAND, self.import_electricity_prices,
      IMPORT_ELECTRICITY_COSTS)

calculate_electricity_export_operation_cost(self) ==
  Mul(self, EXPORT_ELECTRICITY_DEMAND, self.export_electricity_prices,
      EXPORT_ELECTRICITY_REVENUES)

calculate_electricity_associated_emissions(self) ==
  Mul(self, IMPORT_ELECTRICITY_DEMAND, self.import_electricity_emission_factor,
      GHG_EMISSIONS_IMPORT_ELECTRICITY)

calculate_site_electricity_avoided_emissions(self) ==
  Mul(self, SELF_CONSUMED_ELECTRICITY, self.import_electricity_emission_factor,
      SITE_GHG_EMISSIONS_DISPLACED)

calculate_total_electricity_avoided_emissions(self) ==
  Mul(self, ELECTRICITY_GENERATION, self.import_electricity_emission_factor,
      TOTAL_GHG_EMISSIONS_DISPLACED)

calculate_electricity_import_savings(self) ==
  Mul(self, SELF_CONSUMED_ELECTRICITY, self.import_electricity_prices,
      ELECTRICITY_SAVINGS)

ScenarioExportResultsRaises(self) ==
  \/ MulRaises(self.site_energy_demand.rows, self.import_electricity_prices)
  \/ MulRaises(self.site_energy_demand.rows, self.export_electricity_prices)
  \/ MulRaises(self.site_energy_demand.rows, self.import_electricity_emission_factor)

\* Scenario.export_results()
scenario_export_results(self) ==
  Frame(self.site_energy_demand.tz, self.site_energy_demand.rows,
        self.site_energy_demand.cols
          \o << calculate_electricity_import_operation_cost(self),
                calculate_electricity_export_operation_cost(self),
                calculate_electricity_import_savings(self),
                calculate_electricity_associated_emissions(self),
                calculate_site_electricity_avoided_emissions(self),
                calculate_total_electricity_avoided_emissions(self) >>)

\* A plausible slip: the site demand is re-pulled, the summary is not.
update_results_demand_only(self) ==
  [self EXCEPT !.site_energy_demand = site_export_results(self.site_model)]

\* Scenario.update_results()
update_results(self) ==
  LET pulled == [self EXCEPT !.site_energy_demand = site_export_results(self.site_model)]
  IN [pulled EXCEPT !.summary_results = scenario_export_results(pulled)]

\* summary_results.loc[k, self.name] = v: overwrite the row, or append it
DictSet(d, k, v) ==
  IF HasKey(d, k)
  THEN Tuple([i \in 1..Len(d) |-> IF d[i][1] = k THEN <<k, v>> ELSE d[i]])
  ELSE Append(d, <<k, v>>)

\* self.summary_results.sum(): one row per column, the column's total
ColumnTotals(dataf) ==
  Tuple([c \in 1..Len(dataf.cols) |->
           <<dataf.cols[c].label, SeqSum(dataf.cols[c].vals)>>])

\* A plausible slip: the peaks are the half-hourly maxima, not doubled.
peak_rows_not_doubled(self, summary_results) ==
  LET with_import ==
        DictSet(summary_results, PEAK_ELECTRICITY_IMPORT,
                SeqMax(ColumnOf(self.site_energy_demand, IMPORT_ELECTRICITY_DEMAND)))
  IN DictSet(with_import, PEAK_ELECTRICITY_EXPORT,
             SeqMax(ColumnOf(self.site_energy_demand, EXPORT_ELECTRICITY_DEMAND)))

\* lines 333-340 of get_summary_results
peak_rows(self, summary_results) ==
  LET with_import ==
        DictSet(summary_results, PEAK_ELECTRICITY_IMPORT,
                SeqMax(ColumnOf(self.site_energy_demand, IMPORT_ELECTRICITY_DEMAND))
                  * PeakFactor)
  IN DictSet(with_import, PEAK_ELECTRICITY_EXPORT,
             SeqMax(ColumnOf(self.site_energy_demand, EXPORT_ELECTRICITY_DEMAND))
               * PeakFactor)

\* one row <<technology, parameter>> per item of a per-technology mapping
RECURSIVE RowsByTechnology(_, _, _)
RowsByTechnology(summary_results, items, parameter) ==
  IF items = <<>> THEN summary_results
  ELSE RowsByTechnology(
         DictSet(summary_results, <<Head(items)[1], parameter[2]>>, Head(items)[2]),
         Tail(items), parameter)

get_capex_by_technology(self, summary_results) ==
  RowsByTechnology(summary_results, capital_cost(self.site_model), CAPEX)

get_capacity_by_technology(self, summary_results) ==
  RowsByTechnology(summary_results, size_system(self.site_model), CAPACITY_INSTALLED)

\* sum(d.values())
DictValuesSum(d) == SeqSum([i \in 1..Len(d) |-> d[i][2]])

\* A plausible slip: the export revenue is added to the cost.
calculate_total_opex_revenue_added(self, summary_results) ==
  LET maintenance ==
        DictSet(summary_results, OPEX,
                DictValuesSum(annual_maintenance_cost(self.site_model)))
  IN DictSet(maintenance, OPEX,
             Lookup(maintenance, OPEX) + Lookup(maintenance, IMPORT_ELECTRICITY_COSTS)
               + Lookup(maintenance, EXPORT_ELECTRICITY_REVENUES))

calculate_total_opex(self, summary_results) ==
  LET maintenance ==
        DictSet(summary_results, OPEX,
                DictValuesSum(annual_maintenance_cost(self.site_model)))
  IN DictSet(maintenance, OPEX,
             (Lookup(maintenance, OPEX) + Lookup(maintenance, IMPORT_ELECTRICITY_COSTS))
               - Lookup(maintenance, EXPORT_ELECTRICITY_REVENUES))

\* Scenario.get_summary_results(): the one-column table named self.name, as
\* the ordered rows <<label, value>>
get_summary_results(self) ==
  LET totals == ColumnTotals(self.summary_results)
      peaks == peak_rows(self, totals)
      capex == get_capex_by_technology(self, peaks)
      opex == calculate_total_opex(self, capex)
  IN [name |-> self.name, rows |-> get_capacity_by_technology(self, opex)]

----------------------------------------------------------------------------
(* The calls on a Scenario *)

\* the fields of a Scenario when __post_init__ reaches update_results: the
\* arguments of __init__, the prices formatted and the defaults set
ScenarioFields(n, s, prices, emission_factor, export_prices) ==
  LET formatted == format_site_import_electricity_prices(prices)
  IN [pc |-> "done", name |-> n, site_model |-> s,
      import_electricity_prices |-> formatted,
      import_electricity_emission_factor |->
        set_default_import_electricity_emission_factor(formatted, emission_factor),
      export_electricity_prices |->
        set_default_export_electricity_prices(formatted, export_prices),
      site_energy_demand |-> site_export_results(s),
      summary_results |-> EmptyFrame]

\* Scenario(name, site_model, import_electricity_prices=..,
\*          import_electricity_emission_factor=.., export_electricity_prices=..):
\* the dataclass __init__ followed by __post_init__.  A ValueError raised on
\* the way leaves no object behind.
ScenarioInit(n, s, prices, emission_factor, export_prices) ==
  LET formatted == format_site_import_electricity_prices(prices)
      defaults_raise == \/ SetDefaultRaises(formatted, emission_factor)
                        \/ SetDefaultRaises(formatted, export_prices)
      fields == ScenarioFields(n, s, prices, emission_factor, export_prices)
      raises == defaults_raise \/ ScenarioExportResultsRaises(fields)
  IN /\ ~Constructed(n)
     /\ scenario' = [scenario EXCEPT ![n] = IF raises THEN NoScenario
                                           ELSE update_results(fields)]
     /\ lastCall' = Call("Scenario.__init__", n,
                         <<s, prices, emission_factor, export_prices>>,
                         IF raises THEN "ValueError" ELSE "None")
     /\ UNCHANGED <<site_electricity_demand, list_asset_aggregator, comparison, utilVars>>

\* Scenario.add_asset_aggregator(asset)
ScenarioAddAssetAggregator(n, a) ==
  /\ Constructed(n)
  /\ Len(list_asset_aggregator[scenario[n].site_model]) < MaxAgg
  /\ list_asset_aggregator' =
       [list_asset_aggregator EXCEPT
          ![scenario[n].site_model] = Append(list_asset_aggregator[scenario[n].site_model], a)]
  /\ lastCall' = Call("Scenario.add_asset_aggregator", n, <<a>>, "None")
  /\ UNCHANGED <<site_electricity_demand, scenario, comparison, utilVars>>

\* A plausible slip: update_results refreshes every scenario built on the
\* same site model, as if the cached results lived on the shared site.
ScenarioUpdateResultsShared(n) ==
  /\ Constructed(n)
  /\ scenario' =
       [m \in ScenarioNames |->
          IF Constructed(m) /\ scenario[m].site_model = scenario[n].site_model
          THEN update_results(scenario[m]) ELSE scenario[m]]
  /\ lastCall' = Call("Scenario.update_results", n, <<>>, "None")
  /\ UNCHANGED <<site_electricity_demand, list_asset_aggregator, comparison, utilVars>>

\* Scenario.update_results()
ScenarioUpdateResults(n) ==
  /\ Constructed(n)
  /\ scenario' = [scenario EXCEPT ![n] = update_results(scenario[n])]
  /\ lastCall' = Call("Scenario.update_results", n, <<>>, "None")
  /\ UNCHANGED <<site_electricity_demand, list_asset_aggregator, comparison, utilVars>>

\* Scenario.get_summary_results()
ScenarioGetSummaryResults(n) ==
  /\ Constructed(n)
  /\ lastCall' = Call("Scenario.get_summary_results", n, <<>>,
                      get_summary_results(scenario[n]))
  /\ UNCHANGED <<site_electricity_demand, list_asset_aggregator, scenario, comparison, utilVars>>

----------------------------------------------------------------------------
(* Spec: one Scenario on one Site, built from any of the supplied tables   *)
(* below, then any sequence of calls on it.                                *)

ScenarioUnderTest == "A"

ScenarioDemandSeries == [Steps -> {0, MaxDemand}]

PriceSeries == {[i \in Steps |-> 100], [i \in Steps |-> IF i = 1 THEN 300 ELSE 100]}

TwoColumnPrices ==
  Frame("naive", NumSteps,
        <<Column(<<"", "day">>, [i \in Steps |-> 100]),
          Column(<<"", "night">>, [i \in Steps |-> 50])>>)

\* the import price tables a caller may supply: none, one column (naive or
\* tz-aware index), two columns
SuppliedImportPrices ==
  {EmptyFrame, TwoColumnPrices}
    \cup {SingleColumn(tz, <<"", "price">>, v) : tz \in {"naive", "UTC"}, v \in PriceSeries}

SuppliedEmissionFactors ==
  {EmptyFrame, SingleColumn("UTC", <<"", "intensity">>, [i \in Steps |-> 200])}

SuppliedExportPrices ==
  {EmptyFrame, SingleColumn("UTC", <<"", "export">>, [i \in Steps |-> 50])}

Init ==
  /\ \E d \in ScenarioDemandSeries :
       site_electricity_demand =
         [s \in SiteIds |-> FormattedSiteDemand(IF s = SiteUnderTest THEN d ELSE Zeros)]
  /\ list_asset_aggregator = [s \in SiteIds |-> <<>>]
  /\ scenario = [n \in ScenarioNames |-> NoScenario]
  /\ comparison = NoComparison
  /\ schedule = NoSchedule
  /\ IdleRandom
  /\ time_table = NoTable
  /\ lastCall = NoCall

Next ==
  \/ \E p \in SuppliedImportPrices, f \in SuppliedEmissionFactors,
        x \in SuppliedExportPrices :
       ScenarioInit(ScenarioUnderTest, SiteUnderTest, p, f, x)
  \/ \E a \in Aggregators : ScenarioAddAssetAggregator(ScenarioUnderTest, a)
  \/ \E a \in Aggregators : SiteAddAssetAggregator(SiteUnderTest, a)
  \/ ScenarioUpdateResults(ScenarioUnderTest)
  \/ ScenarioGetSummaryResults(ScenarioUnderTest)

Spec == Init /\ [][Next]_vars

----------------------------------------------------------------------------
(* Properties of Scenario, checked under Spec *)

\* the largest element of a non-empty sequence
Largest(vals) ==
  CHOOSE m \in {vals[i] : i \in 1..Len(vals)} : \A i \in 1..Len(vals) : m >= vals[i]

C1_Step ==
  \A n \in ScenarioNames :
    lastCall'.self = n =>
      /\ lastCall'.op = "Scenario.add_asset_aggregator" =>
           /\ list_asset_aggregator'[scenario[n].site_model] =
                Append(list_asset_aggregator[scenario[n].site_model], lastCall'.args[1])
           /\ scenario'[n].site_energy_demand = scenario[n].site_energy_demand
           /\ scenario'[n].summary_results = scenario[n].summary_results
      /\ \/ lastCall'.op = "Scenario.update_results"
         \/ lastCall'.op = "Scenario.__init__" /\ lastCall'.ret = "None"
         => /\ UNCHANGED <<site_electricity_demand, list_asset_aggregator>>
            /\ \A s \in SiteIds :
                 scenario'[n].site_model = s =>
                   scenario'[n].site_energy_demand = site_export_results(s)
            /\ scenario'[n].summary_results = scenario_export_results(scenario'[n])

\* C1: Scenario.add_asset_aggregator appends the asset to the site model's
\* aggregator list and leaves the cached site_energy_demand and
\* summary_results as they were; right after every update_results (the one
\* that ends construction included) site_energy_demand is the site model's
\* current export_results() (the call leaves the site model as it is) and
\* summary_results is the scenario's export_results() computed from it.
C1_CacheDiscipline == [][C1_Step]_vars

\* C1's case: update_results called after an aggregator that generates was
\* added, the cache now holding its generation
C1_Witness ==
  /\ lastCall.op = "Scenario.update_results"
  /\ list_asset_aggregator[scenario[lastCall.self].site_model] # <<>>
  /\ \E i \in Steps :
       ColumnOf(scenario[lastCall.self].site_energy_demand, ELECTRICITY_GENERATION)[i] > 0

\* C3: every Scenario whose construction finished has its import price table
\* with the index in the site model's timezone and the single column labelled
\* IMPORT_ELECTRICITY_PRICES, and non-empty emission-factor and export-price
\* tables, whatever tables were supplied.
C3_AfterConstruction ==
  \A n \in ScenarioNames :
    Constructed(n) =>
      /\ scenario[n].import_electricity_prices.tz = SiteTimezone
      /\ Len(scenario[n].import_electricity_prices.cols) = 1
      /\ scenario[n].import_electricity_prices.cols[1].label = IMPORT_ELECTRICITY_PRICES
      /\ scenario[n].import_electricity_emission_factor.rows > 0
      /\ scenario[n].export_electricity_prices.rows > 0

\* C3's case: a Scenario built from a tz-aware price table, with neither an
\* emission factor nor an export price table supplied
C3_Witness ==
  /\ lastCall.op = "Scenario.__init__"
  /\ Constructed(lastCall.self)
  /\ lastCall.args[2].tz = "UTC"
  /\ lastCall.args[3] = EmptyFrame
  /\ lastCall.args[4] = EmptyFrame

\* C7: get_summary_results reports peak import as 2 x the maximum of the
\* cached import demand, peak export as 2 x the maximum of the cached export
\* demand, and every per-timestep column as its sum over the period.
C7_PeaksAndTotals ==
  lastCall.op = "Scenario.get_summary_results" =>
    LET self == scenario[lastCall.self]
        rows == lastCall.ret.rows
    IN /\ Lookup(rows, PEAK_ELECTRICITY_IMPORT) =
            2 * Largest(ColumnOf(self.site_energy_demand, IMPORT_ELECTRICITY_DEMAND))
       /\ Lookup(rows, PEAK_ELECTRICITY_EXPORT) =
            2 * Largest(ColumnOf(self.site_energy_demand, EXPORT_ELECTRICITY_DEMAND))
       /\ \A c \in 1..Len(self.summary_results.cols) :
            /\ HasKey(rows, self.summary_results.cols[c].label)
            /\ Lookup(rows, self.summary_results.cols[c].label) =
                 SeqSum(self.summary_results.cols[c].vals)

\* C7's case: a summary of a scenario that both imports and exports
C7_Witness ==
  /\ lastCall.op = "Scenario.get_summary_results"
  /\ Lookup(lastCall.ret.rows, PEAK_ELECTRICITY_IMPORT) > 0
  /\ Lookup(lastCall.ret.rows, PEAK_ELECTRICITY_EXPORT) > 0
  /\ Lookup(lastCall.ret.rows, PEAK_ELECTRICITY_IMPORT)
       # Lookup(lastCall.ret.rows, IMPORT_ELECTRICITY_DEMAND)

\* the site model's annual maintenance cost, summed over every technology of
\* every attached aggregator
TotalMaintenance(s) ==
  SeqSum([a \in 1..Len(list_asset_aggregator[s]) |->
            DictValuesSum(list_asset_aggregator[s][a].annual_maintenance_cost)])

\* C8: the summary's OPEX is the site model's annual maintenance cost summed
\* over all technologies, plus the period total of import cost, minus the
\* period total of export revenue; import cost at a row is import demand x
\* import price, export revenue at a row is export demand x export price.
C8_Opex ==
  lastCall.op = "Scenario.get_summary_results" =>
    LET self == scenario[lastCall.self]
        imports == ColumnOf(self.site_energy_demand, IMPORT_ELECTRICITY_DEMAND)
        exports == ColumnOf(self.site_energy_demand, EXPORT_ELECTRICITY_DEMAND)
        cost == [i \in Steps |-> imports[i] * self.import_electricity_prices.cols[1].vals[i]]
        revenue == [i \in Steps |-> exports[i] * self.export_electricity_prices.cols[1].vals[i]]
    IN /\ ColumnOf(self.summary_results, IMPORT_ELECTRICITY_COSTS) = cost
       /\ ColumnOf(self.summary_results, EXPORT_ELECTRICITY_REVENUES) = revenue
       /\ Lookup(lastCall.ret.rows, OPEX) =
            (TotalMaintenance(self.site_model) + SeqSum(cost)) - SeqSum(revenue)

\* C8's case: a summary with maintenance, import cost and export revenue all
\* above zero
C8_Witness ==
  /\ lastCall.op = "Scenario.get_summary_results"
  /\ TotalMaintenance(scenario[lastCall.self].site_model) > 0
  /\ Lookup(lastCall.ret.rows, IMPORT_ELECTRICITY_COSTS) > 0
  /\ Lookup(lastCall.ret.rows, EXPORT_ELECTRICITY_REVENUES) > 0

\* C9: a Scenario built without an emission factor table has an emission
\* factor table with the rows of the formatted import price table, a single
\* column and 0.150 in every row, whatever the prices; the price values are
\* those supplied.
C9_DefaultEmissionFactor ==
  /\ lastCall.op = "Scenario.__init__"
  /\ lastCall.ret = "None"
  /\ lastCall.args[3].rows = 0
  => LET self == scenario[lastCall.self]
         factor == self.import_electricity_emission_factor
         prices == self.import_electricity_prices
     IN /\ factor.rows = prices.rows
        /\ factor.tz = prices.tz
        /\ Len(factor.cols) = 1
        /\ Len(factor.cols[1].vals) = prices.rows
        /\ \A i \in 1..factor.rows : factor.cols[1].vals[i] = 150
        /\ prices.cols[1].vals = lastCall.args[2].cols[1].vals

\* C9's case: built without an emission factor from prices that vary
C9_Witness ==
  /\ lastCall.op = "Scenario.__init__"
  /\ lastCall.ret = "None"
  /\ lastCall.args[3] = EmptyFrame
  /\ \E i, j \in Steps : lastCall.args[2].cols[1].vals[i] # lastCall.args[2].cols[1].vals[j]

----------------------------------------------------------------------------
(* ScenarioComparison (analysis/comparison.py)                             *)
(*                                                                         *)
(* A summary table is [rows |-> the row labels in order, cols |-> the      *)
(* columns [name |-> scenario name, vals |-> cells by row position]].  A   *)
(* cell is a float: the quotient num/den, NaN, or a signed infinity.       *)

Value(v) == [kind |-> "num", num |-> v, den |-> 1]

NaN == [kind |-> "nan", num |-> 0, den |-> 1]

Infinity(sign) == [kind |-> IF sign > 0 THEN "inf" ELSE "-inf", num |-> 0, den |-> 1]

\* float subtraction of the number r from a cell of whole value
Subtract(cell, r) ==
  IF cell.kind = "nan" THEN NaN ELSE Value(cell.num - r)

\* A plausible slip: a guard that turns a division by zero into 0.
Divide_guarded(cell, r) ==
  IF cell.kind = "nan" THEN NaN
  ELSE IF r # 0 THEN [kind |-> "num", num |-> cell.num, den |-> r]
  ELSE Value(0)

\* float division of a cell of whole value by the number r: x/0 is a signed
\* infinity, 0/0 is NaN, nothing is raised
Divide(cell, r) ==
  IF cell.kind = "nan" THEN NaN
  ELSE IF r # 0 THEN [kind |-> "num", num |-> cell.num, den |-> r]
  ELSE IF cell.num > 0 THEN Infinity(1)
  ELSE IF cell.num < 0 THEN Infinity(-1)
  ELSE NaN

EmptySummary == [rows |-> <<>>, cols |-> <<>>]

\* the index (row labels) of a scenario's summary, in order
RowLabels(summary) == Tuple([i \in 1..Len(summary.rows) |-> summary.rows[i][1]])

\* the values of a scenario's summary, by position (`.values`)
RowValues(summary) == Tuple([i \in 1..Len(summary.rows) |-> summary.rows[i][2]])

\* the row index pd.concat(frames, axis=1) gives the first i frames: the
\* union of their labels, each at its first appearance
RECURSIVE UnionIndex(_, _)
UnionIndex(frames, i) ==
  IF i = 0 THEN <<>>
  ELSE LET before == UnionIndex(frames, i - 1)
       IN before \o SelectSeq(RowLabels(frames[i]),
                              LAMBDA l : \A j \in 1..Len(before) : before[j] # l)

\* a summary's column laid on the row index `index`: NaN where it has no such row
Reindex(summary, index) ==
  Tuple([i \in 1..Len(index) |->
           IF HasKey(summary.rows, index[i]) THEN Value(Lookup(summary.rows, index[i]))
           ELSE NaN])

\* the scenario names in ascending order
SortedNames == <<"A", "B">>

\* sorted(columns)
sorted(names) ==
  SelectSeq(SortedNames, LAMBDA n : \E i \in 1..Len(names) : names[i] = n)

\* pd.concat(frames, axis=1) raises ValueError (nothing to concatenate) for
\* an empty list of frames
SummaryRaises(self) == self.list_scenarios = <<>>

\* A plausible slip: the table of an earlier access is handed back.
summary_results_cached(self) ==
  IF self._summary_results # [rows |-> <<>>, cols |-> <<>>]
  THEN self._summary_results
  ELSE LET frames == Tuple([i \in 1..Len(self.list_scenarios) |->
                              get_summary_results(scenario[self.list_scenarios[i]])])
           index == UnionIndex(frames, Len(frames))
           sorted_cols == sorted([i \in 1..Len(frames) |-> frames[i].name])
           FrameOf(n) == frames[CHOOSE i \in 1..Len(frames) : frames[i].name = n]
       IN [rows |-> index,
           cols |-> Tuple([c \in 1..Len(sorted_cols) |->
                             [name |-> sorted_cols[c],
                              vals |-> Reindex(FrameOf(sorted_cols[c]), index)]])]

\* ScenarioComparison.summary_results: what the property assigns to
\* _summary_results and returns, for a list that is not empty
summary_results(self) ==
  LET frames == Tuple([i \in 1..Len(self.list_scenarios) |->
                         get_summary_results(scenario[self.list_scenarios[i]])])
      index == UnionIndex(frames, Len(frames))
      sorted_cols == sorted([i \in 1..Len(frames) |-> frames[i].name])
      FrameOf(n) == frames[CHOOSE i \in 1..Len(frames) : frames[i].name = n]
  IN [rows |-> index,
      cols |-> Tuple([c \in 1..Len(sorted_cols) |->
                        [name |-> sorted_cols[c],
                         vals |-> Reindex(FrameOf(sorted_cols[c]), index)]])]

Returned(table) == [error |-> "", rows |-> table.rows, cols |-> table.cols]

Raised(error) == [error |-> error, rows |-> <<>>, cols |-> <<>>]

\* a variant of comparison_results that leaves the subtraction out
comparison_results_ratio(self) ==
  LET ref_summary == RowValues(get_summary_results(scenario[self.reference_scenario]))
      summary == summary_results(self)
  IN IF SummaryRaises(self) \/ Len(summary.rows) # Len(ref_summary)
     THEN Raised("ValueError")
     ELSE Returned(
       [rows |-> summary.rows,
        cols |-> Tuple([c \in 1..Len(summary.cols) |->
                          [name |-> summary.cols[c].name,
                           vals |-> Tuple([i \in 1..Len(summary.rows) |->
                                             Divide(summary.cols[c].vals[i],
                                                    ref_summary[i])])]])])

\* ScenarioComparison.comparison_results(): what it returns.  The
\* reference's values are an array of one column, taken by position; a
\* table with another number of rows cannot be combined with it, and an
\* empty list has no table.
comparison_results(self) ==
  LET ref_summary == RowValues(get_summary_results(scenario[self.reference_scenario]))
      summary == summary_results(self)
  IN IF SummaryRaises(self) \/ Len(summary.rows) # Len(ref_summary)
     THEN Raised("ValueError")
     ELSE Returned(
       [rows |-> summary.rows,
        cols |-> Tuple([c \in 1..Len(summary.cols) |->
                          [name |-> summary.cols[c].name,
                           vals |-> Tuple([i \in 1..Len(summary.rows) |->
                                             Divide(Subtract(summary.cols[c].vals[i],
                                                             ref_summary[i]),
                                                    ref_summary[i])])]])])

----------------------------------------------------------------------------
(* The calls on a ScenarioComparison *)

ComparisonId == "comparison"

\* ScenarioComparison(reference_scenario, list_scenarios): the object the
\* dataclass __init__ leaves
ScenarioComparison(reference, list) ==
  [pc |-> "done", reference_scenario |-> reference, list_scenarios |-> list,
   _summary_results |-> EmptySummary]

\* ScenarioComparison.comparison_results()
ComparisonResults ==
  /\ comparison.pc = "done"
  /\ comparison' = IF SummaryRaises(comparison) THEN comparison
                   ELSE [comparison EXCEPT !._summary_results = summary_results(comparison)]
  /\ lastCall' = Call("ScenarioComparison.comparison_results", ComparisonId, <<>>,
                      comparison_results(comparison))
  /\ UNCHANGED <<site_electricity_demand, list_asset_aggregator, scenario, utilVars>>

\* a read of the property ScenarioComparison.summary_results; the call
\* record keeps the _summary_results the object held before the read
SummaryResults ==
  /\ comparison.pc = "done"
  /\ comparison' = IF SummaryRaises(comparison) THEN comparison
                   ELSE [comparison EXCEPT !._summary_results = summary_results(comparison)]
  /\ lastCall' = Call("ScenarioComparison.summary_results", ComparisonId,
                      <<comparison._summary_results>>,
                      IF SummaryRaises(comparison) THEN Raised("ValueError")
                      ELSE Returned(summary_results(comparison)))
  /\ UNCHANGED <<site_electricity_demand, list_asset_aggregator, scenario, utilVars>>

----------------------------------------------------------------------------
(* SpecCompare: a ScenarioComparison of scenario A on site1 and scenario  *)
(* B on site2, with either as the reference and any list of distinct       *)
(* scenarios among the two, the empty list included.  Both                 *)
(* scenarios were built with one price table and the default emission      *)
(* factor and export price; site2 had its aggregators attached before B    *)
(* was built.  Aggregators are then attached through A, A is refreshed,    *)
(* and the summary and the comparison are asked for at any point.          *)

SiteOf == [n \in ScenarioNames |-> IF n = "A" THEN "site1" ELSE "site2"]

ComparePrices == SingleColumn("UTC", <<"", "price">>, [i \in Steps |-> 100])

ComparedSite2 == {<<>>, <<PVArray>>, <<EVChargers>>, <<EVChargers, PVArray>>}

ScenarioLists == {<<>>, <<"A">>, <<"B">>, <<"A", "B">>, <<"B", "A">>}

\* Scenario(n, SiteOf[n], ComparePrices), as built
Compared(n) ==
  update_results(ScenarioFields(n, SiteOf[n], ComparePrices, EmptyFrame, EmptyFrame))

InitCompare ==
  /\ site_electricity_demand =
       [site1 |-> FormattedSiteDemand([i \in Steps |-> MaxDemand]),
        site2 |-> FormattedSiteDemand([i \in Steps |-> MaxDemand])]
  /\ \E l \in ComparedSite2 : list_asset_aggregator = [site1 |-> <<>>, site2 |-> l]
  /\ scenario = [A |-> Compared("A"), B |-> Compared("B")]
  /\ \E reference \in ScenarioNames, list \in ScenarioLists :
       comparison = ScenarioComparison(reference, list)
  /\ schedule = NoSchedule
  /\ IdleRandom
  /\ time_table = NoTable
  /\ lastCall = NoCall

NextCompare ==
  \/ ScenarioAddAssetAggregator("A", PVArray)
  \/ ScenarioUpdateResults("A")
  \/ ComparisonResults
  \/ SummaryResults

SpecCompare == InitCompare /\ [][NextCompare]_vars

----------------------------------------------------------------------------
(* Properties of ScenarioComparison, checked under SpecCompare *)

\* the column of scenario n in a returned table
ColumnNamed(table, n) ==
  table.cols[CHOOSE c \in 1..Len(table.cols) : table.cols[c].name = n]

InList(n, list) == \E i \in 1..Len(list) : list[i] = n

\* comparison_results returned a table and the reference is in list_scenarios
ReferenceCompared ==
  /\ lastCall.op = "ScenarioComparison.comparison_results"
  /\ lastCall.ret.error = ""
  /\ InList(comparison.reference_scenario, comparison.list_scenarios)

IsZero(cell) == cell.kind = "num" /\ cell.num = 0

\* C10 as stated: whenever the reference scenario is in list_scenarios, its
\* own column of comparison_results is exactly zero in every metric row.
C10_ReferenceColumnZero ==
  ReferenceCompared =>
    \A i \in 1..Len(lastCall.ret.rows) :
      IsZero(ColumnNamed(lastCall.ret, comparison.reference_scenario).vals[i])

\* C10, amended: whenever comparison_results returns and the reference
\* scenario is in list_scenarios, the reference's own column holds, in every
\* row that sits at the position it has in the reference's own summary,
\* exactly zero if the reference's value there is not zero and NaN (0/0) if
\* it is zero.  (A row at another position holds the delta against the
\* metric the reference has at that position.)
C10_ReferenceColumn ==
  LET ref_summary == get_summary_results(scenario[comparison.reference_scenario])
  IN ReferenceCompared =>
       \A i \in 1..Len(lastCall.ret.rows) :
         lastCall.ret.rows[i] = RowLabels(ref_summary)[i] =>
           LET cell == ColumnNamed(lastCall.ret, comparison.reference_scenario).vals[i]
           IN IF RowValues(ref_summary)[i] # 0 THEN IsZero(cell) ELSE cell = NaN

\* C10's case: a reference with an asset compared in a list of two, the rows
\* being those of its own summary, with reference values both zero and not
C10_Witness ==
  LET ref_summary == get_summary_results(scenario[comparison.reference_scenario])
  IN /\ ReferenceCompared
     /\ lastCall.ret.rows = RowLabels(ref_summary)
     /\ Len(comparison.list_scenarios) = 2
     /\ list_asset_aggregator[scenario[comparison.reference_scenario].site_model] # <<>>
     /\ \E i \in 1..Len(ref_summary.rows) : RowValues(ref_summary)[i] = 0
     /\ \E i \in 1..Len(ref_summary.rows) : RowValues(ref_summary)[i] # 0

\* two float cells hold the same value (NaN taken as equal to NaN)
SameCell(a, b) ==
  /\ a.kind = b.kind
  /\ a.kind = "num" => a.num * b.den = b.num * a.den

\* the fractional delta of summary s against summary ref for the metric m
DeltaFor(s, ref, m) ==
  IF HasKey(s.rows, m) /\ HasKey(ref.rows, m)
  THEN Divide(Value(Lookup(s.rows, m) - Lookup(ref.rows, m)), Lookup(ref.rows, m))
  ELSE NaN

\* C11: comparison_results returns, for every listed scenario S and every
\* metric m of the result, (S's summary value for m - the reference's value
\* for the same m) / the reference's value for m, for any list of
\* scenarios, whatever their technology rows.
C11_FractionalDelta ==
  lastCall.op = "ScenarioComparison.comparison_results" =>
    /\ lastCall.ret.error = ""
    /\ \A c \in 1..Len(lastCall.ret.cols), i \in 1..Len(lastCall.ret.rows) :
         SameCell(lastCall.ret.cols[c].vals[i],
                  DeltaFor(get_summary_results(scenario[lastCall.ret.cols[c].name]),
                           get_summary_results(scenario[comparison.reference_scenario]),
                           lastCall.ret.rows[i]))

NotANumber == {"nan", "inf", "-inf"}

\* C12: comparison_results raises only when the compared table and the
\* reference's summary differ in their number of rows (an empty list has
\* no table at all), never because a reference value is zero.  In the
\* table it returns, every cell of a row
\* whose reference value is zero is NaN or a signed infinity, and every
\* cell of a row whose reference value r is not zero is (x - r) / r for the
\* compared value x of that cell.
C12_ZeroReference ==
  lastCall.op = "ScenarioComparison.comparison_results" =>
    LET ref == RowValues(get_summary_results(scenario[comparison.reference_scenario]))
        summary == comparison._summary_results
    IN /\ lastCall.ret.error # "" <=>
            comparison.list_scenarios = <<>> \/ Len(summary.rows) # Len(ref)
       /\ lastCall.ret.error = "" =>
            \A c \in 1..Len(summary.cols), i \in 1..Len(summary.rows) :
              LET x == summary.cols[c].vals[i]
                  cell == lastCall.ret.cols[c].vals[i]
              IN IF ref[i] = 0 THEN cell.kind \in NotANumber
                 ELSE x.kind = "num" =>
                        cell = [kind |-> "num", num |-> x.num - ref[i], den |-> ref[i]]

\* C12's case: a returned comparison with a zero reference value against
\* which one compared value is zero (NaN) and another is not (infinite),
\* and a non-zero reference value with a non-zero delta
C12_Witness ==
  /\ lastCall.op = "ScenarioComparison.comparison_results"
  /\ lastCall.ret.error = ""
  /\ LET ref == RowValues(get_summary_results(scenario[comparison.reference_scenario]))
         cells == lastCall.ret.cols
     IN /\ \E c \in 1..Len(cells), i \in 1..Len(ref) :
             ref[i] = 0 /\ cells[c].vals[i].kind = "inf"
        /\ \E c \in 1..Len(cells), i \in 1..Len(ref) :
             ref[i] = 0 /\ cells[c].vals[i].kind = "nan"
        /\ \E c \in 1..Len(cells), i \in 1..Len(ref) :
             ref[i] # 0 /\ cells[c].vals[i].kind = "num" /\ cells[c].vals[i].num # 0

\* the place of a scenario name in the ascending order of names
NameRank(n) == CHOOSE k \in 1..Len(SortedNames) : SortedNames[k] = n

\* the returned table has one column per listed scenario, ascending by name,
\* holding that scenario's current get_summary_results() value at every row
\* of that scenario and NaN at every other row; every row of the table is a
\* row of some listed scenario; and the table is what the object now holds
FreshSummary ==
  LET list == comparison.list_scenarios
      table == lastCall.ret
  IN /\ Len(table.cols) = Len(list)
     /\ \A i \in 1..Len(list) : \E c \in 1..Len(table.cols) : table.cols[c].name = list[i]
     /\ \A c, e \in 1..Len(table.cols) :
          c < e => NameRank(table.cols[c].name) < NameRank(table.cols[e].name)
     /\ \A c \in 1..Len(table.cols) :
          LET current == get_summary_results(scenario[table.cols[c].name])
          IN /\ \A j \in 1..Len(current.rows) :
                  \E i \in 1..Len(table.rows) :
                    /\ table.rows[i] = current.rows[j][1]
                    /\ table.cols[c].vals[i] = Value(current.rows[j][2])
             /\ \A i \in 1..Len(table.rows) :
                  ~HasKey(current.rows, table.rows[i]) => table.cols[c].vals[i] = NaN
     /\ \A i \in 1..Len(table.rows) :
          \E k \in 1..Len(list) :
            HasKey(get_summary_results(scenario[list[k]]).rows, table.rows[i])
     /\ \A i, j \in 1..Len(table.rows) : i # j => table.rows[i] # table.rows[j]
     /\ comparison._summary_results = [rows |-> table.rows, cols |-> table.cols]

\* C13 as stated: every access of summary_results returns one column per
\* listed scenario, ascending by name, each equal to that scenario's current
\* get_summary_results().
C13_EveryAccess ==
  lastCall.op = "ScenarioComparison.summary_results" =>
    lastCall.ret.error = "" /\ FreshSummary

\* C13, amended: an access of summary_results on an empty list_scenarios
\* raises ValueError; every access on a list that is not empty (of scenarios
\* with distinct names), after any changes to the listed scenarios, returns
\* one column per listed scenario, ascending by name, each holding that
\* scenario's current get_summary_results() at that scenario's rows and NaN
\* at the rows only other listed scenarios have; nothing of an earlier
\* access is reused.
C13_SummaryRecomputed ==
  lastCall.op = "ScenarioComparison.summary_results" =>
    IF comparison.list_scenarios = <<>>
    THEN lastCall.ret.error = "ValueError"
    ELSE lastCall.ret.error = "" /\ FreshSummary

\* C13's case: an access that follows an earlier access of two scenarios and
\* returns another table than the earlier one, one scenario having a row
\* the other has not
C13_Witness ==
  /\ lastCall.op = "ScenarioComparison.summary_results"
  /\ lastCall.ret.error = ""
  /\ Len(comparison.list_scenarios) = 2
  /\ lastCall.args[1] # EmptySummary
  /\ lastCall.args[1] # comparison._summary_results
  /\ \E c \in 1..Len(lastCall.ret.cols), i \in 1..Len(lastCall.ret.rows) :
       lastCall.ret.cols[c].vals[i] = NaN

----------------------------------------------------------------------------
(* OccupancySchedule (site/schedule.py)                                    *)
(*                                                                         *)
(* A time table is [index |-> the row labels in order, cols |-> the        *)
(* columns [label |-> .., vals |-> ..]].  A list of booleans is a          *)
(* sequence.  occupancy_dict is a dict: <<day, <<interval, ..>>>> pairs in *)
(* insertion order, an interval being <<start, end>>.                      *)

DAYOFWEEK == "Day of week"

HALFHOUR == "Half-hour"

TimeTable(index, cols) == [index |-> Tuple(index), cols |-> Tuple(cols)]

\* an optional argument: None, or a value
None == [none |-> TRUE, value |-> <<>>]

Some(v) == [none |-> FALSE, value |-> v]

\* default_occupancy of __post_init__
DefaultOccupancy ==
  << <<0, << <<16, 34>> >> >>, <<1, << <<16, 34>> >> >>, <<2, << <<16, 34>> >> >>,
     <<3, << <<16, 34>> >> >>, <<4, << <<16, 34>> >> >>, <<5, <<>> >>, <<6, <<>> >> >>

\* OccupancySchedule(occupancy_dict): the object after __post_init__
OccupancySchedule(occupancy_dict) ==
  [pc |-> "done",
   occupancy_dict |-> IF occupancy_dict.none THEN DefaultOccupancy
                      ELSE occupancy_dict.value,
   timestep |-> HALFHOUR]

Shorter(a, b) == IF a <= b THEN a ELSE b

\* A plausible slip: the shorter list is padded with False, not the longer cut.
or_operator_padded(list_1, list_2) ==
  Tuple([i \in 1..(IF Len(list_1) >= Len(list_2) THEN Len(list_1) ELSE Len(list_2)) |->
           \/ (i <= Len(list_1) /\ list_1[i])
           \/ (i <= Len(list_2) /\ list_2[i])])

\* [a or b for a, b in zip(list_1, list_2)]
or_operator(list_1, list_2) ==
  Tuple([i \in 1..Shorter(Len(list_1), Len(list_2)) |-> list_1[i] \/ list_2[i]])

\* [a and b for a, b in zip(list_1, list_2)]
and_operator(list_1, list_2) ==
  Tuple([i \in 1..Shorter(Len(list_1), Len(list_2)) |-> list_1[i] /\ list_2[i]])

\* [False] * len(dataf)
AllFalse(dataf) == Tuple([i \in 1..Len(dataf.index) |-> FALSE])

\* the loop over the intervals of one day (lines 63-69) with the end of the
\* interval left out
RECURSIVE TimeFilter_end_excluded(_, _, _)
TimeFilter_end_excluded(temp_final_time_filt, temp_hours, times) ==
  IF temp_hours = <<>> THEN temp_final_time_filt
  ELSE LET start_time == Head(temp_hours)[1]
           end_time == Head(temp_hours)[2]
           start_time_filt == Tuple([i \in 1..Len(times) |-> start_time <= times[i]])
           end_time_filt == Tuple([i \in 1..Len(times) |-> times[i] < end_time])
           temp_time_filt == and_operator(start_time_filt, end_time_filt)
       IN TimeFilter_end_excluded(or_operator(temp_final_time_filt, temp_time_filt),
                                  Tail(temp_hours), times)

\* the loop over the intervals of one day (lines 63-69)
RECURSIVE TimeFilter(_, _, _)
TimeFilter(temp_final_time_filt, temp_hours, times) ==
  IF temp_hours = <<>> THEN temp_final_time_filt
  ELSE LET start_time == Head(temp_hours)[1]
           end_time == Head(temp_hours)[2]
           start_time_filt == Tuple([i \in 1..Len(times) |-> start_time <= times[i]])
           end_time_filt == Tuple([i \in 1..Len(times) |-> times[i] <= end_time])
           temp_time_filt == and_operator(start_time_filt, end_time_filt)
       IN TimeFilter(or_operator(temp_final_time_filt, temp_time_filt),
                     Tail(temp_hours), times)

\* the loop over the items of occupancy_dict (lines 59-72)
RECURSIVE DayFilter(_, _, _, _)
DayFilter(temp_filt, items, self, dataf) ==
  IF items = <<>> THEN temp_filt
  ELSE LET temp_day == Head(items)[1]
           temp_hours == Head(items)[2]
           days == ColumnOf(dataf, DAYOFWEEK)
           day_match == Tuple([i \in 1..Len(days) |-> days[i] = temp_day])
           temp_final_time_filt ==
             TimeFilter(AllFalse(dataf), temp_hours, ColumnOf(dataf, self.timestep))
           temp_day_filt == and_operator(day_match, temp_final_time_filt)
       IN DayFilter(or_operator(temp_filt, temp_day_filt), Tail(items), self, dataf)

\* OccupancySchedule.get_filter(dataf)
get_filter(self, dataf) == DayFilter(AllFalse(dataf), self.occupancy_dict, self, dataf)

\* dataf[filt] for a list of booleans as long as the table
Mask(dataf, filt) ==
  LET kept == SelectSeq([i \in 1..Len(dataf.index) |-> i], LAMBDA i : filt[i])
  IN TimeTable([k \in 1..Len(kept) |-> dataf.index[kept[k]]],
               [c \in 1..Len(dataf.cols) |->
                  Column(dataf.cols[c].label,
                         [k \in 1..Len(kept) |-> dataf.cols[c].vals[kept[k]]])])

\* A plausible slip: the filter is not negated for occupied=False.
filter_df_not_negated(self, dataf, occupied) == Mask(dataf, get_filter(self, dataf))

\* OccupancySchedule.filter_df(dataf, occupied)
filter_df(self, dataf, occupied) ==
  LET filt == get_filter(self, dataf)
  IN IF occupied THEN Mask(dataf, filt)
     ELSE Mask(dataf, Tuple([i \in 1..Len(filt) |-> ~filt[i]]))

----------------------------------------------------------------------------
(* The calls on an OccupancySchedule *)

ScheduleId == "schedule"

GetFilter ==
  /\ schedule.pc = "done"
  /\ lastCall' = Call("OccupancySchedule.get_filter", ScheduleId, <<>>,
                      get_filter(schedule, time_table))
  /\ UNCHANGED <<analysisVars, utilVars>>

FilterDf(occupied) ==
  /\ schedule.pc = "done"
  /\ lastCall' = Call("OccupancySchedule.filter_df", ScheduleId, <<occupied>>,
                      filter_df(schedule, time_table, occupied))
  /\ UNCHANGED <<analysisVars, utilVars>>

OrOperator(list_1, list_2) ==
  /\ schedule.pc = "done"
  /\ lastCall' = Call("OccupancySchedule.or_operator", ScheduleId, <<list_1, list_2>>,
                      or_operator(list_1, list_2))
  /\ UNCHANGED <<analysisVars, utilVars>>

AndOperator(list_1, list_2) ==
  /\ schedule.pc = "done"
  /\ lastCall' = Call("OccupancySchedule.and_operator", ScheduleId, <<list_1, list_2>>,
                      and_operator(list_1, list_2))
  /\ UNCHANGED <<analysisVars, utilVars>>

----------------------------------------------------------------------------
(* SpecSchedule: an OccupancySchedule built with no map (the default) or   *)
(* with one of the maps below, and a table of NumSteps rows whose day of   *)
(* week and half-hour are any of the values below; get_filter and          *)
(* filter_df are called on it.                                             *)

\* Monday, Saturday, Sunday
SampleDays == {0, 5, 6}

\* half-hour indices around the bounds of the default interval (16, 34)
SampleHalfHours == {15, 16, 20, 34, 35, 40}

\* a map with a day of two intervals, a day of one, and no other day
CustomOccupancy == << <<5, << <<0, 15>>, <<35, 47>> >> >>, <<0, << <<40, 40>> >> >> >>

SuppliedOccupancy == {None, Some(<<>>), Some(CustomOccupancy)}

\* the analysis layer, not used
IdleAnalysis ==
  /\ site_electricity_demand = [s \in SiteIds |-> FormattedSiteDemand(Zeros)]
  /\ list_asset_aggregator = [s \in SiteIds |-> <<>>]
  /\ scenario = [n \in {"A", "B"} |-> NoScenario]
  /\ comparison = NoComparison

InitSchedule ==
  /\ IdleAnalysis
  /\ \E d \in SuppliedOccupancy : schedule = OccupancySchedule(d)
  /\ IdleRandom
  /\ \E days \in [Steps -> SampleDays], times \in [Steps -> SampleHalfHours] :
       time_table = TimeTable([i \in Steps |-> i],
                              <<Column(DAYOFWEEK, days), Column(HALFHOUR, times),
                                Column("Site energy [kWh]", [i \in Steps |-> 10 * i])>>)
  /\ lastCall = NoCall

NextSchedule ==
  \/ GetFilter
  \/ \E occupied \in BOOLEAN : FilterDf(occupied)

SpecSchedule == InitSchedule /\ [][NextSchedule]_vars

(* SpecOperators: and_operator and or_operator on any two lists of         *)
(* booleans of up to MaxLen elements.                                      *)

MaxLen == 3

BooleanLists == UNION {[1..n -> BOOLEAN] : n \in 0..MaxLen}

InitOperators ==
  /\ IdleAnalysis
  /\ schedule = OccupancySchedule(None)
  /\ IdleRandom
  /\ time_table = NoTable
  /\ lastCall = NoCall

NextOperators ==
  \/ \E list_1, list_2 \in BooleanLists : OrOperator(list_1, list_2)
  \/ \E list_1, list_2 \in BooleanLists : AndOperator(list_1, list_2)

SpecOperators == InitOperators /\ [][NextOperators]_vars

----------------------------------------------------------------------------
(* Properties of OccupancySchedule *)

\* the day d and timestep t lie in an interval the map lists for d
Occupied(occupancy_dict, d, t) ==
  \E k \in 1..Len(occupancy_dict) :
    /\ occupancy_dict[k][1] = d
    /\ \E j \in 1..Len(occupancy_dict[k][2]) :
         occupancy_dict[k][2][j][1] <= t /\ t <= occupancy_dict[k][2][j][2]

\* C14: get_filter flags a row occupied exactly when its day of week is a
\* key of the occupancy map and some interval (start, end) listed for that
\* day has start <= timestep <= end; with the default map, Monday index 20
\* is occupied, Monday index 40 is not, and no Saturday or Sunday row is.
C14_GetFilter ==
  lastCall.op = "OccupancySchedule.get_filter" =>
    LET days == ColumnOf(time_table, DAYOFWEEK)
        times == ColumnOf(time_table, HALFHOUR)
    IN /\ Len(lastCall.ret) = Len(time_table.index)
       /\ \A i \in 1..Len(time_table.index) :
            /\ lastCall.ret[i] <=> Occupied(schedule.occupancy_dict, days[i], times[i])
            /\ schedule.occupancy_dict = DefaultOccupancy =>
                 /\ days[i] = 0 /\ times[i] = 20 => lastCall.ret[i]
                 /\ days[i] = 0 /\ times[i] = 40 => ~lastCall.ret[i]
                 /\ days[i] \in {5, 6} => ~lastCall.ret[i]

\* C14's case: the default map on a table with Monday 08:00 (index 20),
\* flagged, and a Saturday row at the same index, not flagged
C14_Witness ==
  /\ lastCall.op = "OccupancySchedule.get_filter"
  /\ schedule.occupancy_dict = DefaultOccupancy
  /\ \E i, j \in 1..Len(time_table.index) :
       /\ ColumnOf(time_table, DAYOFWEEK)[i] = 0
       /\ ColumnOf(time_table, HALFHOUR)[i] = 20
       /\ lastCall.ret[i]
       /\ ColumnOf(time_table, DAYOFWEEK)[j] = 5
       /\ ColumnOf(time_table, HALFHOUR)[j] = 20
       /\ ~lastCall.ret[j]

\* the row labels of a table, as a set
Labels(dataf) == {dataf.index[i] : i \in 1..Len(dataf.index)}

\* the table `part` holds rows of `whole`, whole and in the order of `whole`
RowsInOrder(part, whole) ==
  /\ \A k \in 1..Len(part.index) :
       \E i \in 1..Len(whole.index) :
         /\ whole.index[i] = part.index[k]
         /\ \A c \in 1..Len(whole.cols) :
              /\ part.cols[c].label = whole.cols[c].label
              /\ part.cols[c].vals[k] = whole.cols[c].vals[i]
  /\ \A k, l \in 1..Len(part.index) : k < l => part.index[k] < part.index[l]

\* C15: filter_df(table, True) and filter_df(table, False) are
\* complementary: every row of the table is in exactly one of the two, and
\* each keeps its rows in the order of the table.
C15_Complementary ==
  lastCall.op = "OccupancySchedule.filter_df" =>
    LET this == lastCall.ret
        other == filter_df(schedule, time_table, ~lastCall.args[1])
    IN /\ Labels(this) \cup Labels(other) = Labels(time_table)
       /\ Labels(this) \cap Labels(other) = {}
       /\ Len(this.index) + Len(other.index) = Len(time_table.index)
       /\ RowsInOrder(this, time_table)
       /\ RowsInOrder(other, time_table)

\* C15's case: a table with an occupied row after a row that is not
C15_Witness ==
  /\ lastCall.op = "OccupancySchedule.filter_df"
  /\ lastCall.ret.index # <<>>
  /\ Len(lastCall.ret.index) < Len(time_table.index)
  /\ lastCall.args[1] = FALSE

\* C16: and_operator and or_operator return a list as long as the shorter
\* of their two lists, whose i-th element is the AND, respectively OR, of
\* the two i-th elements.
C16_Operators ==
  LET list_1 == lastCall.args[1]
      list_2 == lastCall.args[2]
  IN /\ lastCall.op = "OccupancySchedule.and_operator" =>
          /\ Len(lastCall.ret) = Shorter(Len(list_1), Len(list_2))
          /\ \A i \in 1..Len(lastCall.ret) : lastCall.ret[i] = (list_1[i] /\ list_2[i])
     /\ lastCall.op = "OccupancySchedule.or_operator" =>
          /\ Len(lastCall.ret) = Shorter(Len(list_1), Len(list_2))
          /\ \A i \in 1..Len(lastCall.ret) : lastCall.ret[i] = (list_1[i] \/ list_2[i])

\* C16's case: or_operator on lists of different lengths, the longer one
\* True past the end of the shorter
C16_Witness ==
  /\ lastCall.op = "OccupancySchedule.or_operator"
  /\ Len(lastCall.args[1]) < Len(lastCall.args[2])
  /\ lastCall.args[1] # <<>>
  /\ lastCall.args[2][Len(lastCall.args[2])]

----------------------------------------------------------------------------
(* Dummy price profile (utillib/dummy_data.py)                             *)
(*                                                                         *)
(* A time of day is its number of seconds after midnight; a timestamp is   *)
(* [year, second], the seconds after 1 January 00:00 UTC of its year.      *)
(* Rates are in units of 0.00001 GBP/kWh.                                  *)

\* the default rates of dummy_duos_values
DefaultRed == 5180

DefaultAmber == 518

DefaultGreen == 51

DefaultDay == 19500

DefaultNight == 14300

SecondsPerDay == 86400

\* freq="30min"
HalfHourSeconds == 1800

\* datetime.time(hour, minute, second)
time(hour, minute, second) == hour * 3600 + minute * 60 + second

Timestamp(year, second) == [year |-> year, second |-> second]

\* Timestamp.time()
TimeOfDay(timestamp) == timestamp.second % SecondsPerDay

IsLeap(year) == (year % 4 = 0 /\ year % 100 # 0) \/ year % 400 = 0

\* the days of the year that are modelled: the first NumDays
NumDays == 2

DaysModelled(year) == Shorter(IF IsLeap(year) THEN 366 ELSE 365, NumDays)

\* generate_annual_timesteps(year): from 1 January 00:00 to the last day
\* 23:59:59, every 30 minutes
generate_annual_timesteps(year) ==
  LET end == DaysModelled(year) * SecondsPerDay - 1
  IN Tuple([k \in 1..(end \div HalfHourSeconds + 1) |->
              Timestamp(year, (k - 1) * HalfHourSeconds)])

Band(start_time, end_time, charge) ==
  [start_time |-> start_time, end_time |-> end_time, charge |-> charge]

\* A plausible slip: the amber band declared before the red band.
dummy_duos_timetable_amber_first(red, amber, green, day, night) ==
  <<Band(time(6, 0, 0), time(16, 0, 0), amber + day),
    Band(time(16, 0, 0), time(20, 0, 0), red + day),
    Band(time(0, 0, 0), time(6, 0, 0), green + night),
    Band(time(20, 0, 0), time(23, 59, 59), green + day)>>

dummy_duos_timetable(red, amber, green, day, night) ==
  <<Band(time(16, 0, 0), time(20, 0, 0), red + day),
    Band(time(6, 0, 0), time(16, 0, 0), amber + day),
    Band(time(0, 0, 0), time(6, 0, 0), green + night),
    Band(time(20, 0, 0), time(23, 59, 59), green + day)>>

\* dummy_duos_values() with its default arguments
dummy_duos_values ==
  dummy_duos_timetable(DefaultRed, DefaultAmber, DefaultGreen, DefaultDay, DefaultNight)

\* the inner loop of generate_dummy_price_profile: the cell of one timestep
\* after the scan of the bands, which stops at the first band that holds
\* the time of day; NaN, the cell of the new table, when no band does
RECURSIVE PriceOf(_, _)
PriceOf(time_of_day, bands) ==
  IF bands = <<>> THEN NaN
  ELSE IF Head(bands).start_time <= time_of_day /\ time_of_day <= Head(bands).end_time
       THEN Value(Head(bands).charge)
       ELSE PriceOf(time_of_day, Tail(bands))

generate_dummy_price_profile(year) ==
  LET timesteps == generate_annual_timesteps(year)
      bands == dummy_duos_values
  IN TimeTable(timesteps,
               <<Column(IMPORT_ELECTRICITY_PRICES,
                        [i \in 1..Len(timesteps) |->
                           PriceOf(TimeOfDay(timesteps[i]), bands)])>>)

GenerateDummyPriceProfile(year) ==
  /\ lastCall' = Call("generate_dummy_price_profile", "", <<year>>,
                      generate_dummy_price_profile(year))
  /\ UNCHANGED <<analysisVars, utilVars>>

(* SpecPrices: generate_dummy_price_profile called for any year. *)

FirstYear == 1970

LastYear == 2100

InitPrices ==
  /\ IdleAnalysis
  /\ schedule = NoSchedule
  /\ IdleRandom
  /\ time_table = NoTable
  /\ lastCall = NoCall

NextPrices == \E year \in FirstYear..LastYear : GenerateDummyPriceProfile(year)

SpecPrices == InitPrices /\ [][NextPrices]_vars

\* the rate the timetable of the documentation gives a time of day: the
\* first band, in declared order, that holds it
DeclaredRate(t) ==
  IF time(16, 0, 0) <= t /\ t <= time(20, 0, 0) THEN Value(DefaultRed + DefaultDay)
  ELSE IF time(6, 0, 0) <= t /\ t <= time(16, 0, 0) THEN Value(DefaultAmber + DefaultDay)
  ELSE IF time(0, 0, 0) <= t /\ t <= time(6, 0, 0) THEN Value(DefaultGreen + DefaultNight)
  ELSE IF time(20, 0, 0) <= t /\ t <= time(23, 59, 59) THEN Value(DefaultGreen + DefaultDay)
  ELSE NaN

\* C17: generate_dummy_price_profile gives every half-hourly timestep of
\* the year the rate of the first band, in declared order (16:00-20:00
\* red+day, 06:00-16:00 amber+day, 00:00-06:00 green+night, 20:00-23:59:59
\* green+day), whose inclusive range holds its time of day: 16:00:00 gets
\* red+day, not amber+day, and no timestep is left without a price.
C17_PriceProfile ==
  lastCall.op = "generate_dummy_price_profile" =>
    LET year == lastCall.args[1]
        index == lastCall.ret.index
        prices == lastCall.ret.cols[1].vals
    IN /\ Len(lastCall.ret.cols) = 1
       /\ lastCall.ret.cols[1].label = IMPORT_ELECTRICITY_PRICES
       /\ Len(index) = DaysModelled(year) * 48
       /\ Len(prices) = Len(index)
       /\ \A i \in 1..Len(index) :
            /\ index[i] = Timestamp(year, (i - 1) * HalfHourSeconds)
            /\ prices[i] = DeclaredRate(TimeOfDay(index[i]))
            /\ prices[i] # NaN
            /\ TimeOfDay(index[i]) = time(16, 0, 0) =>
                 prices[i] = Value(DefaultRed + DefaultDay)

\* C17's case: a profile with a 16:00:00 timestep at the red rate, next to
\* a 15:30:00 one at the amber rate
C17_Witness ==
  /\ lastCall.op = "generate_dummy_price_profile"
  /\ \E i \in 2..Len(lastCall.ret.index) :
       /\ TimeOfDay(lastCall.ret.index[i]) = time(16, 0, 0)
       /\ lastCall.ret.cols[1].vals[i] = Value(DefaultRed + DefaultDay)
       /\ lastCall.ret.cols[1].vals[i - 1] = Value(DefaultAmber + DefaultDay)

----------------------------------------------------------------------------
(* Time features (utillib/functions.py)                                    *)

HOUR == "Hour"

MONTH == "Month"

WEEKDAYFLAG == "Weekday flag"

YEAR == "Year"

DATE == "Date"

WEEK == "Week"

DAYOFYEAR == "Day of year"

SEASON == "season"

SEASON_NUM == "season_number"

\* Season.X.name
WINTER == "WINTER"

SPRING == "SPRING"

SUMMER == "SUMMER"

AUTUMN == "AUTUMN"

\* A plausible slip: the autumn range runs to month 12.
get_season_long_autumn(month) ==
  IF 3 <= month /\ month <= 5 THEN SPRING
  ELSE IF 6 <= month /\ month <= 8 THEN SUMMER
  ELSE IF 9 <= month /\ month <= 12 THEN AUTUMN
  ELSE WINTER

get_season(month) ==
  IF 3 <= month /\ month <= 5 THEN SPRING
  ELSE IF 6 <= month /\ month <= 8 THEN SUMMER
  ELSE IF 9 <= month /\ month <= 11 THEN AUTUMN
  ELSE WINTER

\* season_dict[x]
season_dict(x) ==
  CASE x = WINTER -> 1
    [] x = SPRING -> 2
    [] x = SUMMER -> 3
    [] x = AUTUMN -> 4

(* The fields of a timestamp of a DatetimeIndex (proleptic Gregorian       *)
(* calendar, as pandas computes them)                                      *)

DaysInYear(year) == IF IsLeap(year) THEN 366 ELSE 365

\* the days of a common year before the first of each month
CumulativeDays == <<0, 31, 59, 90, 120, 151, 181, 212, 243, 273, 304, 334>>

\* the days of the year before the first of the month
DaysBefore(year, month) ==
  IF month > 2 /\ IsLeap(year) THEN CumulativeDays[month] + 1 ELSE CumulativeDays[month]

\* DatetimeIndex.dayofyear
DayOfYear(timestamp) == timestamp.second \div SecondsPerDay + 1

\* DatetimeIndex.month
MonthOf(timestamp) ==
  CHOOSE month \in 1..12 :
    /\ DaysBefore(timestamp.year, month) < DayOfYear(timestamp)
    /\ month < 12 => DayOfYear(timestamp) <= DaysBefore(timestamp.year, month + 1)

\* DatetimeIndex.hour
HourOf(timestamp) == TimeOfDay(timestamp) \div 3600

\* DatetimeIndex.minute
MinuteOf(timestamp) == (TimeOfDay(timestamp) % 3600) \div 60

\* DatetimeIndex.date
DateOf(timestamp) ==
  [year |-> timestamp.year, month |-> MonthOf(timestamp),
   day |-> DayOfYear(timestamp) - DaysBefore(timestamp.year, MonthOf(timestamp))]

\* the days from 1 January of year 1, a Monday, to 1 January of the year
DaysBeforeYear(year) ==
  365 * (year - 1) + (year - 1) \div 4 - (year - 1) \div 100 + (year - 1) \div 400

\* DatetimeIndex.dayofweek: Monday 0 .. Sunday 6
DayOfWeek(timestamp) == (DaysBeforeYear(timestamp.year) + DayOfYear(timestamp) - 1) % 7

\* the ISO weeks of a year: 53 when 1 January is a Thursday, or a Wednesday
\* of a leap year
WeeksInYear(year) ==
  LET jan1 == DaysBeforeYear(year) % 7
  IN IF jan1 = 3 \/ (jan1 = 2 /\ IsLeap(year)) THEN 53 ELSE 52

\* DatetimeIndex.isocalendar().week
IsoWeek(timestamp) ==
  LET week == (DayOfYear(timestamp) - (DayOfWeek(timestamp) + 1) + 10) \div 7
  IN IF week < 1 THEN WeeksInYear(timestamp.year - 1)
     ELSE IF week > WeeksInYear(timestamp.year) THEN 1
     ELSE week

\* A plausible slip: the minutes are rounded to the nearest half-hour.
HalfHourIndex_rounded(timestamp) ==
  HourOf(timestamp) * 2 + (MinuteOf(timestamp) + 15) \div 30

\* new_dataf_index.hour * 2 + new_dataf_index.minute // 30, as int
HalfHourIndex(timestamp) == HourOf(timestamp) * 2 + MinuteOf(timestamp) \div 30

\* the value add_time_features sets in the column of that label for a
\* timestamp of the index
Feature(label, timestamp) ==
  CASE label = HOUR -> HourOf(timestamp)
    [] label = DAYOFWEEK -> DayOfWeek(timestamp)
    [] label = DAYOFYEAR -> DayOfYear(timestamp)
    [] label = MONTH -> MonthOf(timestamp)
    [] label = YEAR -> timestamp.year
    [] label = WEEKDAYFLAG -> IF DayOfWeek(timestamp) < 5 THEN "weekday" ELSE "weekend"
    [] label = HALFHOUR -> HalfHourIndex(timestamp)
    [] label = DATE -> DateOf(timestamp)
    [] label = WEEK -> IsoWeek(timestamp)
    [] label = SEASON -> get_season(MonthOf(timestamp))
    [] label = SEASON_NUM -> season_dict(get_season(MonthOf(timestamp)))

FeatureColumn(dataf, label) ==
  Column(label, [i \in 1..Len(dataf.index) |-> Feature(label, dataf.index[i])])

\* new_dataf[label] = values: the column of that label is replaced where it
\* is, a new label is appended
SetColumn(dataf, column) ==
  IF \E c \in 1..Len(dataf.cols) : dataf.cols[c].label = column.label
  THEN TimeTable(dataf.index,
                 [c \in 1..Len(dataf.cols) |->
                    IF dataf.cols[c].label = column.label THEN column ELSE dataf.cols[c]])
  ELSE TimeTable(dataf.index, Append(dataf.cols, column))

RECURSIVE SetColumns(_, _)
SetColumns(dataf, columns) ==
  IF columns = <<>> THEN dataf
  ELSE SetColumns(SetColumn(dataf, Head(columns)), Tail(columns))

\* add_time_features(dataf): [dataf |-> the argument after the call,
\* ret |-> the table returned].  The features are set on a copy.
add_time_features(dataf) ==
  LET new_dataf == dataf
      featured ==
        SetColumns(new_dataf,
          <<FeatureColumn(new_dataf, HOUR), FeatureColumn(new_dataf, DAYOFWEEK),
            FeatureColumn(new_dataf, DAYOFYEAR), FeatureColumn(new_dataf, MONTH),
            FeatureColumn(new_dataf, YEAR), FeatureColumn(new_dataf, WEEKDAYFLAG),
            FeatureColumn(new_dataf, HALFHOUR), FeatureColumn(new_dataf, DATE),
            FeatureColumn(new_dataf, WEEK), FeatureColumn(new_dataf, SEASON),
            FeatureColumn(new_dataf, SEASON_NUM)>>)
  IN [dataf |-> dataf, ret |-> featured]

GetSeason(month) ==
  /\ lastCall' = Call("get_season", "", <<month>>, get_season(month))
  /\ UNCHANGED <<analysisVars, utilVars>>

AddTimeFeatures ==
  LET done == add_time_features(time_table)
  IN /\ time_table' = done.dataf
     /\ lastCall' = Call("add_time_features", "", <<time_table>>, done.ret)
     /\ UNCHANGED <<analysisVars, schedule, random_state, np_random_state>>

(* SpecTimeFeatures: a table of NumSteps rows whose first timestamp is any *)
(* minute of the day, on the 15th of a month of SampleYear that changes    *)
(* with the minute, the rows SampleStep apart; add_time_features is called *)
(* on it, and get_season on any month.                                     *)

SampleYear == 2024

\* 31 days and 30 minutes: the next row is in the next month and half-hour
SampleStep == 31 * SecondsPerDay + HalfHourSeconds

\* a timestamp whose seconds run past the end of its year
Normalise(timestamp) ==
  IF timestamp.second < DaysInYear(timestamp.year) * SecondsPerDay THEN timestamp
  ELSE Timestamp(timestamp.year + 1,
                 timestamp.second - DaysInYear(timestamp.year) * SecondsPerDay)

InitTimeFeatures ==
  /\ IdleAnalysis
  /\ schedule = NoSchedule
  /\ IdleRandom
  /\ \E minute \in 0..1439 :
       LET month == (minute % 12) + 1
           start == (DaysBefore(SampleYear, month) + 14) * SecondsPerDay + minute * 60
       IN time_table =
            TimeTable([i \in Steps |->
                         Normalise(Timestamp(SampleYear, start + (i - 1) * SampleStep))],
                      <<Column("Site energy [kWh]", [i \in Steps |-> 10 * i])>>)
  /\ lastCall = NoCall

NextTimeFeatures ==
  \/ \E month \in 1..12 : GetSeason(month)
  \/ AddTimeFeatures

SpecTimeFeatures == InitTimeFeatures /\ [][NextTimeFeatures]_vars

\* the season the documentation gives a month
DeclaredSeason(month) ==
  CASE month \in {12, 1, 2} -> WINTER
    [] month \in {3, 4, 5} -> SPRING
    [] month \in {6, 7, 8} -> SUMMER
    [] month \in {9, 10, 11} -> AUTUMN

C19_HalfHour ==
  lastCall.op = "add_time_features" =>
    LET given == lastCall.args[1]
        ret == lastCall.ret
    IN /\ time_table = given
       /\ ret.index = given.index
       /\ \A c \in 1..Len(given.cols) : given.cols[c].label # HALFHOUR
       /\ \A i \in 1..Len(ret.index) :
            LET h == (ret.index[i].second % SecondsPerDay) \div 3600
                m == ((ret.index[i].second % SecondsPerDay) \div 60) % 60
                index == ColumnOf(ret, HALFHOUR)[i]
            IN /\ h \in 0..23 /\ m \in 0..59
               /\ index = 2 * h + (m \div 30)
               /\ index \in 0..47
               /\ h = 13 /\ m = 30 => index = 27

\* C19's case: a table whose first row is at 13:30 and whose next row is
\* half an hour later in the day, left as it was given
C19_Witness ==
  /\ lastCall.op = "add_time_features"
  /\ HourOf(time_table.index[1]) = 13
  /\ MinuteOf(time_table.index[1]) = 30
  /\ ColumnOf(lastCall.ret, HALFHOUR)[1] = 27
  /\ ColumnOf(lastCall.ret, HALFHOUR)[2] = 28
  /\ time_table = lastCall.args[1]

----------------------------------------------------------------------------
(* Enum lookups by value (structures/enums.py)                             *)
(*                                                                         *)
(* A raw value is [kind, int, str]: an integer, a string or None.  The     *)
(* members of an Enum declared with auto() have the values 1, 2, ... in    *)
(* the order of declaration.                                               *)

IntValue(n) == [kind |-> "int", int |-> n, str |-> ""]

StrValue(x) == [kind |-> "str", int |-> 0, str |-> x]

NoneValue == [kind |-> "None", int |-> 0, str |-> ""]

PhysicalQuantity ==
  [name |-> "PhysicalQuantity",
   members |-> <<"TEMPERATURE", "ENERGY", "TIME", "MASS", "LENGTH", "POWER",
                 "UNCATEGORIZED">>]

EnergyCarrier ==
  [name |-> "EnergyCarrier",
   members |-> <<"ELECTRICITY", "NATURALGAS", "HEATING", "COOLING", "UNCATEGORIZED",
                 "NONE">>]

\* the member of an Enum class of that name: its value is its position
Member(cls, name) ==
  [enum |-> cls.name, name |-> name,
   value |-> CHOOSE i \in 1..Len(cls.members) : cls.members[i] = name]

NoMember == [enum |-> "", name |-> "", value |-> 0]

\* Enum._missing_, the one a class inherits when it defines none: None
Enum_missing_(cls, value) == NoMember

\* the _missing_ of PhysicalQuantity and of EnergyCarrier
Class_missing_(cls, value) ==
  IF cls.name = "PhysicalQuantity" THEN Member(cls, "UNCATEGORIZED")
  ELSE Member(cls, "NONE")

\* cls(value): the member of that value; else what _missing_ returns, when
\* it is a member of the class; else ValueError
EnumCall(cls, value) ==
  IF value.kind = "int" /\ value.int \in 1..Len(cls.members)
  THEN [error |-> "", member |-> Member(cls, cls.members[value.int])]
  ELSE LET result == Class_missing_(cls, value)
       IN IF result.enum = cls.name
          THEN [error |-> "", member |-> result]
          ELSE [error |-> "ValueError", member |-> NoMember]

LookupPhysicalQuantity(value) ==
  /\ lastCall' = Call("PhysicalQuantity", "", <<value>>, EnumCall(PhysicalQuantity, value))
  /\ UNCHANGED <<analysisVars, utilVars>>

LookupEnergyCarrier(value) ==
  /\ lastCall' = Call("EnergyCarrier", "", <<value>>, EnumCall(EnergyCarrier, value))
  /\ UNCHANGED <<analysisVars, utilVars>>

(* SpecEnums: both classes called with any raw value below. *)

MaxRaw == 30

RawValues ==
  {IntValue(n) : n \in -MaxRaw..MaxRaw}
    \cup {StrValue(x) : x \in {"", "NONE", "none", "ELECTRICITY", "electricity",
                               "UNCATEGORIZED", "uncategorized", "1"}}
    \cup {NoneValue}

InitEnums ==
  /\ IdleAnalysis
  /\ schedule = NoSchedule
  /\ IdleRandom
  /\ time_table = NoTable
  /\ lastCall = NoCall

NextEnums ==
  \/ \E value \in RawValues : LookupPhysicalQuantity(value)
  \/ \E value \in RawValues : LookupEnergyCarrier(value)

SpecEnums == InitEnums /\ [][NextEnums]_vars

\* the raw value is the value of a member of the class
Recognized(cls, value) == value.kind = "int" /\ value.int \in 1..Len(cls.members)

\* C20: looking up EnergyCarrier or PhysicalQuantity by raw value never
\* fails: a recognized raw value returns its own member, and every other
\* raw value returns EnergyCarrier.NONE, respectively
\* PhysicalQuantity.UNCATEGORIZED, with no error.
C20_LookupNeverFails ==
  /\ lastCall.op = "EnergyCarrier" =>
       /\ lastCall.ret.error = ""
       /\ lastCall.ret.member.enum = "EnergyCarrier"
       /\ IF Recognized(EnergyCarrier, lastCall.args[1])
          THEN /\ lastCall.ret.member.value = lastCall.args[1].int
               /\ lastCall.ret.member.name = EnergyCarrier.members[lastCall.args[1].int]
          ELSE lastCall.ret.member.name = "NONE"
  /\ lastCall.op = "PhysicalQuantity" =>
       /\ lastCall.ret.error = ""
       /\ lastCall.ret.member.enum = "PhysicalQuantity"
       /\ IF Recognized(PhysicalQuantity, lastCall.args[1])
          THEN /\ lastCall.ret.member.value = lastCall.args[1].int
               /\ lastCall.ret.member.name = PhysicalQuantity.members[lastCall.args[1].int]
          ELSE lastCall.ret.member.name = "UNCATEGORIZED"

\* C20's case: EnergyCarrier called with 7, the value of a member of
\* PhysicalQuantity but of none of its own, returns NONE
C20_Witness ==
  /\ lastCall.op = "EnergyCarrier"
  /\ lastCall.args[1] = IntValue(7)
  /\ lastCall.ret.error = ""
  /\ lastCall.ret.member.name = "NONE"

----------------------------------------------------------------------------
(* Construction of a Site (analysis/site.py, __post_init__)                *)
(*                                                                         *)
(* A supplied demand table is [freq, frame]: the spacing of its index and  *)
(* the table.                                                              *)

Supplied(freq, frame) == [freq |-> freq, frame |-> frame]

\* functions.resample_and_fill_missing_data(dataf, freq="30min") on a table
\* of one column: a half-hourly table keeps its rows; an hourly one gets a
\* row between every two, filled by linear interpolation
resample_and_fill_missing_data(supplied) ==
  LET vals == supplied.frame.cols[1].vals
      rows == supplied.frame.rows
  IN IF supplied.freq = "30min" \/ rows = 0 THEN supplied.frame
     ELSE Frame(supplied.frame.tz, 2 * rows - 1,
                <<Column(supplied.frame.cols[1].label,
                         [i \in 1..(2 * rows - 1) |->
                            IF i % 2 = 1 THEN vals[(i + 1) \div 2]
                            ELSE (vals[i \div 2] + vals[i \div 2 + 1]) \div 2])>>)

FormatResult(error, warning, dataf) ==
  [error |-> error, warning |-> warning, dataf |-> dataf]

\* A plausible slip: the number of columns is not looked at.  Setting one
\* label on a table that has not one column raises ValueError.
format_site_electricity_demand_data_unguarded(supplied) ==
  IF Len(supplied.frame.cols) = 1
  THEN FormatResult("", FALSE,
                    Frame(SiteTimezone, resample_and_fill_missing_data(supplied).rows,
                          <<Column(INIT_SITE_ELECTRICITY_DEMAND,
                                   resample_and_fill_missing_data(supplied).cols[1].vals)>>))
  ELSE FormatResult("ValueError", FALSE, supplied.frame)

\* Site.format_site_electricity_demand_data(): the error raised, whether the
\* warning was printed, and self.site_electricity_demand after the call
format_site_electricity_demand_data(supplied) ==
  IF Len(supplied.frame.cols) = 1
  THEN LET resampled == resample_and_fill_missing_data(supplied)
       IN FormatResult("", FALSE,
                       Frame(SiteTimezone, resampled.rows,
                             <<Column(INIT_SITE_ELECTRICITY_DEMAND,
                                      resampled.cols[1].vals)>>))
  ELSE FormatResult("", TRUE, supplied.frame)

\* Site(name, geolocation, [], site_electricity_demand=supplied): the
\* dataclass __init__ followed by __post_init__
SiteInit(s, supplied) ==
  LET done == format_site_electricity_demand_data(supplied)
  IN /\ site_electricity_demand' =
          [site_electricity_demand EXCEPT
             ![s] = IF done.error = "" THEN done.dataf ELSE @]
     /\ list_asset_aggregator' = [list_asset_aggregator EXCEPT ![s] = <<>>]
     /\ lastCall' = Call("Site.__init__", s, <<supplied>>,
                         [error |-> done.error, warning |-> done.warning])
     /\ UNCHANGED <<scenario, comparison, utilVars>>

(* SpecConstruct: Sites built from any of the supplied tables below: no    *)
(* table, a table of no column, of one column, of two columns; the index   *)
(* naive or tz-aware, half-hourly or hourly.                               *)

ColumnSets ==
  {<<>>}
    \cup {<<Column(<<"", "Site energy [kWh]">>, [i \in Steps |-> 2 * d[i]])>> : d \in DemandSeries}
    \cup {<<Column(<<"", "Site energy [kWh]">>, [i \in Steps |-> 2 * d[i]]),
            Column(<<"", "Site gas [kWh]">>, [i \in Steps |-> 1])>> :
            d \in DemandSeries}

SuppliedDemand ==
  {Supplied("30min", EmptyFrame)}
    \cup {Supplied(freq, Frame(tz, NumSteps, cols)) :
            freq \in {"30min", "60min"}, tz \in {"naive", "UTC", SiteTimezone},
            cols \in ColumnSets}

InitConstruct ==
  /\ site_electricity_demand = [s \in SiteIds |-> EmptyFrame]
  /\ list_asset_aggregator = [s \in SiteIds |-> <<>>]
  /\ scenario = [n \in {"A", "B"} |-> NoScenario]
  /\ comparison = NoComparison
  /\ schedule = NoSchedule
  /\ IdleRandom
  /\ time_table = NoTable
  /\ lastCall = NoCall

NextConstruct == \E supplied \in SuppliedDemand : SiteInit(SiteUnderTest, supplied)

SpecConstruct == InitConstruct /\ [][NextConstruct]_vars

\* C21: constructing a Site whose demand table has not exactly one column
\* (none, or more than one) never fails: formatting is skipped, a warning
\* is emitted, and the stored site_electricity_demand is the supplied table
\* unchanged (not resampled, not localized, not relabelled).
C21_SiteConstruction ==
  lastCall.op = "Site.__init__" =>
    LET supplied == lastCall.args[1]
        stored == site_electricity_demand[lastCall.self]
    IN Len(supplied.frame.cols) # 1 =>
         /\ lastCall.ret.error = ""
         /\ lastCall.ret.warning
         /\ stored = supplied.frame
         /\ stored.rows = supplied.frame.rows
         /\ stored.tz = supplied.frame.tz
         /\ \A c \in 1..Len(stored.cols) : stored.cols[c].label # INIT_SITE_ELECTRICITY_DEMAND

\* C21's case: a Site built from an hourly, naive table of two columns
C21_Witness ==
  /\ lastCall.op = "Site.__init__"
  /\ lastCall.args[1].freq = "60min"
  /\ Len(lastCall.args[1].frame.cols) = 2
  /\ lastCall.args[1].frame.tz = "naive"
  /\ lastCall.ret.warning
  /\ site_electricity_demand[lastCall.self] = lastCall.args[1].frame

----------------------------------------------------------------------------
(* Construction of a Scenario from an import price table that has not one  *)
(* column, checked under Spec                                              *)

\* C22: constructing a Scenario whose import price table has not exactly
\* one column (not supplied, or more than one column) completes without an
\* error: the import prices are left as supplied and construction goes on
\* through the defaults and the computation of the results.
C22_ConstructionCompletes ==
  lastCall.op = "Scenario.__init__" /\ Len(lastCall.args[2].cols) # 1 =>
    /\ lastCall.ret = "None"
    /\ Constructed(lastCall.self)
    /\ scenario[lastCall.self].import_electricity_prices = lastCall.args[2]

----------------------------------------------------------------------------
(* SpecTotals: the totals over the aggregators of a Site, read at any      *)
(* point while aggregators are attached to it in any order.                *)

\* Site.total_additional_demand()
TotalAdditionalDemand(s) ==
  /\ lastCall' = Call("Site.total_additional_demand", s, <<>>, total_additional_demand(s))
  /\ UNCHANGED <<analysisVars, utilVars>>

\* Site.total_onsite_generation()
TotalOnsiteGeneration(s) ==
  /\ lastCall' = Call("Site.total_onsite_generation", s, <<>>, total_onsite_generation(s))
  /\ UNCHANGED <<analysisVars, utilVars>>

NextTotals ==
  \/ \E a \in Aggregators : SiteAddAssetAggregator(SiteUnderTest, a)
  \/ TotalAdditionalDemand(SiteUnderTest)
  \/ TotalOnsiteGeneration(SiteUnderTest)

SpecTotals == InitSite /\ [][NextTotals]_vars

\* some attached aggregator hands over a series of that field
Contributes(s, field) ==
  \E a \in 1..Len(list_asset_aggregator[s]) : list_asset_aggregator[s][a][field] # <<>>

\* the table is one column of that label on the time index of the site
\* demand, its rows the sums over the aggregators of that field
TotalOf(ret, s, field, label) ==
  /\ Len(ret.cols) = 1
  /\ ret.cols[1].label = label
  /\ ret.tz = site_electricity_demand[s].tz
  /\ ret.rows = site_electricity_demand[s].rows
  /\ Len(ret.cols[1].vals) = site_electricity_demand[s].rows
  /\ \A i \in 1..ret.rows : ret.cols[1].vals[i] = AggregatorsRow(s, field, i)
  /\ ~Contributes(s, field) =>
       /\ ret.rows > 0
       /\ \A i \in 1..ret.rows : ret.cols[1].vals[i] = 0

\* C23: Site.total_additional_demand and Site.total_onsite_generation
\* return a single-column table over the site demand's time index whose
\* value at each row is the sum of that row over all attached aggregators'
\* additional-demand (respectively onsite-generation) series; with no
\* aggregator contribution the result is not empty but all zeros on the
\* site demand's own time index.
C23_Totals ==
  /\ lastCall.op = "Site.total_additional_demand" =>
       TotalOf(lastCall.ret, lastCall.self, "additional_demand",
               ADDITIONAL_ELECTRICITY_DEMAND)
  /\ lastCall.op = "Site.total_onsite_generation" =>
       TotalOf(lastCall.ret, lastCall.self, "onsite_generation", ELECTRICITY_GENERATION)

\* C23's case: the additional demand of a site with an aggregator attached
\* that adds none, the fallback table of zeros
C23_Witness ==
  /\ lastCall.op = "Site.total_additional_demand"
  /\ list_asset_aggregator[lastCall.self] = <<PVArray>>
  /\ lastCall.ret.rows = NumSteps
  /\ \A i \in Steps : lastCall.ret.cols[1].vals[i] = 0

----------------------------------------------------------------------------
(* Dummy demand and carbon profiles (utillib/dummy_data.py)                *)
(*                                                                         *)
(* A random generator is held as the seed it started from and the number   *)
(* of values drawn since; the value it hands out next is a fixed function  *)
(* of the two.  Python's generator is seeded once, when the module is      *)
(* imported; numpy's is never seeded by the library, so it starts from     *)
(* whatever the operating system gave it.  Carbon intensities are in       *)
(* thousandths.                                                            *)

RandomModulus == 2^16

\* the next raw value of a generator in that state
RandomBits(state) ==
  (state.seed * 7919 + state.drawn * 25173 + (state.drawn * state.drawn) * 31 + 13849)
    % RandomModulus

\* the state after n values were drawn
Advance(state, n) == RandomState(state.seed, state.drawn + n)

\* random.randint(a, b) as the draw after n earlier ones
randint(state, n, a, b) == a + (RandomBits(Advance(state, n)) % (b - a + 1))

\* one value of np.random.uniform(-1, 1, length), as the draw after n
\* earlier ones
uniform(state, n) == (RandomBits(Advance(state, n)) % 2000) - 1000

\* generate_dummy_demand_values(timestamp), as the draw after n earlier ones
generate_dummy_demand_values(state, n, timestamp) ==
  IF /\ time(7, 0, 0) <= TimeOfDay(timestamp)
     /\ TimeOfDay(timestamp) <= time(18, 0, 0)
     /\ DayOfWeek(timestamp) <= 4
  THEN randint(state, n, 10, 40)
  ELSE randint(state, n, 0, 10)

\* create_dummy_site_demand(year) with Python's generator in that state:
\* the table returned and the state of the generator after the call
create_dummy_site_demand(state, year) ==
  LET timesteps == generate_annual_timesteps(year)
  IN [ret |-> TimeTable(timesteps,
                        <<Column("Site energy [kWh]",
                                 [i \in 1..Len(timesteps) |->
                                    generate_dummy_demand_values(state, i - 1,
                                                                 timesteps[i])])>>),
      state |-> Advance(state, Len(timesteps))]

\* 1000 * sin of 0, 10, .. 90 degrees
QuarterSine == <<0, 174, 342, 500, 643, 766, 866, 940, 985, 1000>>

\* 1000 * np.sin(2 * np.pi * times / wavelength), wavelength 36
Sine(times) ==
  LET k == times % 36
  IN IF k <= 9 THEN QuarterSine[k + 1]
     ELSE IF k <= 18 THEN QuarterSine[19 - k]
     ELSE IF k <= 27 THEN 0 - QuarterSine[k - 17]
     ELSE 0 - QuarterSine[37 - k]

\* generate_dummy_carbon_profile(year) with numpy's generator in that state
generate_dummy_carbon_profile(state, year) ==
  LET index == generate_annual_timesteps(year)
      amplitude == 20
      mean_value == 180
  IN [ret |-> TimeTable(index,
                        <<Column("actual",
                                 [i \in 1..Len(index) |->
                                    amplitude * Sine(i - 1)
                                      + (mean_value + HourOf(index[i])) * 1000
                                      + uniform(state, i - 1)])>>),
      state |-> Advance(state, Len(index))]

\* the calls of one process that are modelled
MaxCalls == 3

CreateDummySiteDemand(year) ==
  LET done == create_dummy_site_demand(random_state, year)
  IN /\ random_state.drawn < MaxCalls * 48 * NumDays
     /\ random_state' = done.state
     /\ lastCall' = Call("create_dummy_site_demand", "", <<year>>, done.ret)
     /\ UNCHANGED <<analysisVars, schedule, time_table, np_random_state>>

GenerateDummyCarbonProfile(year) ==
  LET done == generate_dummy_carbon_profile(np_random_state, year)
  IN /\ np_random_state.drawn < MaxCalls * 48 * NumDays
     /\ np_random_state' = done.state
     /\ lastCall' = Call("generate_dummy_carbon_profile", "", <<year>>, done.ret)
     /\ UNCHANGED <<analysisVars, schedule, time_table, random_state>>

(* The cashflow skeleton (analysis/economic_functions.py) *)

\* site_schema.ResultsSchema.INDEX, the name of the index of result tables
RESULTS_INDEX == SchemaLabel("INDEX")

\* A plausible slip: the stop value is counted in.
range_inclusive(start, stop) == Tuple([i \in 1..(stop - start + 1) |-> start + i - 1])

\* list(range(start, stop))
range(start, stop) == Tuple([i \in 1..(stop - start) |-> start + i - 1])

\* the years of the skeleton: range(0, 50)
HorizonYears == 50

\* create_cashflow_data_skeleton(): a table is its index, the name of the
\* index, its columns and the names of the levels of its column labels
create_cashflow_data_skeleton ==
  [index |-> range(0, HorizonYears), index_name |-> RESULTS_INDEX,
   cols |-> <<>>, column_names |-> <<"Parameters", "Units">>]

CreateCashflowDataSkeleton ==
  /\ lastCall' = Call("create_cashflow_data_skeleton", "", <<>>,
                      create_cashflow_data_skeleton)
  /\ UNCHANGED <<analysisVars, utilVars>>

(* SpecDummy: a process that has imported utillib.dummy_data and calls the *)
(* two generators and create_cashflow_data_skeleton, in any order, the     *)
(* generators for either of two years.                                     *)

\* the seeds the operating system may give numpy's generator: 0..MaxEntropy
MaxEntropy == 2

DummyYears == {SampleYear - 1, SampleYear}

InitDummy ==
  /\ IdleAnalysis
  /\ schedule = NoSchedule
  /\ time_table = NoTable
  /\ random_state = RandomState(Seed, 0)
  /\ \E entropy \in 0..MaxEntropy : np_random_state = RandomState(entropy, 0)
  /\ lastCall = NoCall

NextDummy ==
  \/ \E year \in DummyYears : CreateDummySiteDemand(year)
  \/ \E year \in DummyYears : GenerateDummyCarbonProfile(year)
  \/ CreateCashflowDataSkeleton

SpecDummy == InitDummy /\ [][NextDummy]_vars

C24_Step ==
  \A op \in {"create_dummy_site_demand", "generate_dummy_carbon_profile"} :
    lastCall.op = op /\ lastCall'.op = op /\ lastCall'.args = lastCall.args =>
      lastCall'.ret = lastCall.ret

\* C24: the dummy data generators are deterministic: two calls of
\* create_dummy_site_demand with the same year, and two calls of
\* generate_dummy_carbon_profile with the same year, return identical
\* series (stated here for two calls in a row).
C24_Deterministic == [][C24_Step]_vars

\* C25: create_cashflow_data_skeleton always returns a table of exactly 50
\* rows indexed 0 to 49 in order and of no column, its index named with
\* the results index label.
C25_CashflowSkeleton ==
  lastCall.op = "create_cashflow_data_skeleton" =>
    /\ Len(lastCall.ret.index) = 50
    /\ \A i \in 1..50 : lastCall.ret.index[i] = i - 1
    /\ lastCall.ret.cols = <<>>
    /\ lastCall.ret.index_name = RESULTS_INDEX

\* C25's case: the skeleton made after both generators have drawn random
\* values
C25_Witness ==
  /\ lastCall.op = "create_cashflow_data_skeleton"
  /\ lastCall.ret.index[50] = 49
  /\ random_state.drawn > 0
  /\ np_random_state.drawn > 0

----------------------------------------------------------------------------
(* The implicit invariants of Site.export_results *)

\* C26: in every row of Site.export_results, for any site demand and any
\* aggregators, import demand >= 0, export demand >= 0, at most one of the
\* two is non-zero, and import - export = site demand + total additional
\* demand - total onsite generation.
C26_ImportExportInvariant ==
  lastCall.op = "Site.export_results" =>
    LET s == lastCall.self
        site == site_electricity_demand[s].cols[1].vals
        import == ColumnOf(lastCall.ret, IMPORT_ELECTRICITY_DEMAND)
        export == ColumnOf(lastCall.ret, EXPORT_ELECTRICITY_DEMAND)
    IN /\ Len(import) = NumSteps /\ Len(export) = NumSteps
       /\ \A i \in Steps :
            /\ import[i] >= 0
            /\ export[i] >= 0
            /\ import[i] = 0 \/ export[i] = 0
            /\ import[i] - export[i] =
                 (site[i] + AggregatorsRow(s, "additional_demand", i))
                   - AggregatorsRow(s, "onsite_generation", i)

\* C26's case: results of a site of negative demand at one row, with
\* aggregators adding demand and generating, one row importing and one
\* row exporting
C26_Witness ==
  /\ lastCall.op = "Site.export_results"
  /\ \E i \in Steps : site_electricity_demand[lastCall.self].cols[1].vals[i] < 0
  /\ \E i \in Steps : AggregatorsRow(lastCall.self, "additional_demand", i) > 0
  /\ \E i \in Steps : AggregatorsRow(lastCall.self, "onsite_generation", i) > 0
  /\ \E i \in Steps : ColumnOf(lastCall.ret, IMPORT_ELECTRICITY_DEMAND)[i] > 0
  /\ \E i \in Steps : ColumnOf(lastCall.ret, EXPORT_ELECTRICITY_DEMAND)[i] > 0

\* C27: in every row of Site.export_results, with non-negative site demand,
\* additional demand and onsite generation, import demand + self-consumed
\* electricity = site demand + total additional demand, also at the rows
\* where the site exports and aggregators add demand.
C27_EnergyBalance ==
  lastCall.op = "Site.export_results" =>
    LET s == lastCall.self
        site == site_electricity_demand[s].cols[1].vals
        import == ColumnOf(lastCall.ret, IMPORT_ELECTRICITY_DEMAND)
        avoided == ColumnOf(lastCall.ret, SELF_CONSUMED_ELECTRICITY)
    IN (\A i \in Steps :
          /\ site[i] >= 0
          /\ AggregatorsRow(s, "additional_demand", i) >= 0
          /\ AggregatorsRow(s, "onsite_generation", i) >= 0)
       => \A i \in Steps :
            import[i] + avoided[i] =
              site[i] + AggregatorsRow(s, "additional_demand", i)

----------------------------------------------------------------------------
(* The summary of a Scenario against the state of its site model *)

\* the rows of a summary all describe the aggregators aggs: the generation
\* and additional-demand totals are those of aggs, the per-technology CAPEX
\* and installed-capacity rows are the sums over aggs, and the maintenance
\* part of the OPEX is the maintenance cost of aggs
DescribesAggregators(rows, aggs) ==
  LET capex == sum_dict(Tuple([a \in 1..Len(aggs) |-> aggs[a].capital_cost]))
      capacity == sum_dict(Tuple([a \in 1..Len(aggs) |-> aggs[a].size_system]))
      maintenance ==
        sum_dict(Tuple([a \in 1..Len(aggs) |-> aggs[a].annual_maintenance_cost]))
      ByTechnology(parameter, items) ==
        /\ \A t \in 1..Len(items) :
             /\ HasKey(rows, <<items[t][1], parameter[2]>>)
             /\ Lookup(rows, <<items[t][1], parameter[2]>>) = items[t][2]
        /\ \A r \in 1..Len(rows) :
             rows[r][1][2] = parameter[2] /\ rows[r][1][1] # "" =>
               HasKey(items, rows[r][1][1])
  IN /\ Lookup(rows, ELECTRICITY_GENERATION) =
          SeqSum([a \in 1..Len(aggs) |-> SeqSum(aggs[a].onsite_generation)])
     /\ Lookup(rows, ADDITIONAL_ELECTRICITY_DEMAND) =
          SeqSum([a \in 1..Len(aggs) |-> SeqSum(aggs[a].additional_demand)])
     /\ ByTechnology(CAPEX, capex)
     /\ ByTechnology(CAPACITY_INSTALLED, capacity)
     /\ (Lookup(rows, OPEX) - Lookup(rows, IMPORT_ELECTRICITY_COSTS))
          + Lookup(rows, EXPORT_ELECTRICITY_REVENUES) = DictValuesSum(maintenance)

C28_Step ==
  lastCall.op = "Scenario.add_asset_aggregator"
    /\ lastCall'.op = "Scenario.get_summary_results"
    /\ lastCall'.self = lastCall.self =>
      LET aggs == list_asset_aggregator[scenario[lastCall.self].site_model]
      IN \/ DescribesAggregators(lastCall'.ret.rows, aggs)
         \/ DescribesAggregators(lastCall'.ret.rows, SubSeq(aggs, 1, Len(aggs) - 1))

\* C28: get_summary_results called after add_asset_aggregator without an
\* update_results in between returns a summary whose energy rows and whose
\* per-technology CAPEX, installed-capacity and OPEX-maintenance figures
\* describe the same set of aggregators: all include the newly added
\* aggregator, or none does.
C28_SummaryConsistent == [][C28_Step]_vars

----------------------------------------------------------------------------
(* SpecShared: two Scenarios built on the same Site; aggregators are added *)
(* and results updated through A, results updated through B, in any order. *)

\* Scenario(n, SiteUnderTest, ComparePrices), as built
SharedScenario(n) ==
  update_results(ScenarioFields(n, SiteUnderTest, ComparePrices, EmptyFrame, EmptyFrame))

InitShared ==
  /\ \E d \in ScenarioDemandSeries :
       site_electricity_demand =
         [s \in SiteIds |-> FormattedSiteDemand(IF s = SiteUnderTest THEN d ELSE Zeros)]
  /\ list_asset_aggregator = [s \in SiteIds |-> <<>>]
  /\ scenario = [n \in ScenarioNames |-> SharedScenario(n)]
  /\ comparison = NoComparison
  /\ schedule = NoSchedule
  /\ IdleRandom
  /\ time_table = NoTable
  /\ lastCall = NoCall

NextShared ==
  \/ \E a \in Aggregators : ScenarioAddAssetAggregator("A", a)
  \/ ScenarioUpdateResults("A")
  \/ ScenarioUpdateResults("B")

SpecShared == InitShared /\ [][NextShared]_vars

\* the cached results of a scenario are those of its site model as it is now
Fresh(self) ==
  /\ self.site_energy_demand = site_export_results(self.site_model)
  /\ self.summary_results = scenario_export_results(self)
  /\ \A i \in Steps :
       /\ ColumnOf(self.summary_results, ELECTRICITY_GENERATION)[i] =
            AggregatorsRow(self.site_model, "onsite_generation", i)
       /\ ColumnOf(self.summary_results, ADDITIONAL_ELECTRICITY_DEMAND)[i] =
            AggregatorsRow(self.site_model, "additional_demand", i)

\* after B.update_results B's cache is that of the site model as it is
C29_AfterUpdate ==
  lastCall.op = "Scenario.update_results" /\ lastCall.self = "B" =>
    Fresh(scenario["B"])

\* a call on A leaves B's cache as it was
C29_Step ==
  lastCall'.self = "A" =>
    /\ scenario'["B"].site_energy_demand = scenario["B"].site_energy_demand
    /\ scenario'["B"].summary_results = scenario["B"].summary_results

\* C29: with two Scenarios on the same site model, no add_asset_aggregator
\* or update_results on A changes B's cached site_energy_demand or
\* summary_results, and after B.update_results B's cached results include
\* every aggregator added through A.
C29_SharedSite == [][C29_Step]_vars /\ []C29_AfterUpdate

\* C29's case: B has just updated and holds the results of two aggregators
\* added through A, while A's own cache does not hold them yet
C29_Witness ==
  /\ lastCall.op = "Scenario.update_results" /\ lastCall.self = "B"
  /\ Len(list_asset_aggregator[SiteUnderTest]) >= 2
  /\ Fresh(scenario["B"])
  /\ \E i \in Steps :
       ColumnOf(scenario["B"].site_energy_demand, ELECTRICITY_GENERATION)[i] > 0
  /\ scenario["A"].site_energy_demand # scenario["B"].site_energy_demand

====
